---- MODULE Spec2Model ----
(***************************************************************************)
(* Model of the Uniswap-V3 swap scripts: src/index.js (the current script) *)
(* and the two scripts concatenated in src/old_scripts/index2.js.          *)
(*                                                                         *)
(* Every `await` of a script is one step of the model: the step takes the  *)
(* outcome of the awaited call (a value read from the chain, or a failure) *)
(* and runs the synchronous code that follows up to the next await.        *)
(* Amounts are in the token's smallest unit.  The chain (factory, pools,   *)
(* token balances and allowances) is the environment; the histories txs,   *)
(* probes, quotes and poolReads record what the script sent to it.         *)
(***************************************************************************)
EXTENDS Integers, Sequences, FiniteSets, TLC

VARIABLES
    script,            \* "index", "old", "legacy", "slippage", "lookup", "approve"
    pc,                \* position of the script (the await it is at)
    factory,           \* chain: factory.getPool, lookup key -> pool address
    balance,           \* chain: wallet's balance of the input token
    allowance,         \* chain: router's allowance on the wallet's input token
    ethBalance,        \* chain: wallet's native balance
    slippage,          \* SLIPPAGE_TOLERANCE, in units of 1/SlippageDen
    tryExactOutput,    \* TRY_EXACT_OUTPUT
    swapAmount,        \* main's argument swapAmount (whole tokens)
    decimalsIn,        \* tokenIn.decimals as fetched
    amountIn,          \* main: amountIn
    apAmount,          \* approveToken: amount
    apCaller,          \* approveToken: who called it ("main" or "exactOutput")
    apAllowance,       \* approveToken: the allowance it read (-1 before the read)
    apStart,           \* history: Len(txs) when approveToken was entered
    pair,              \* getPoolInfo: its arguments <<tokenIn, tokenOut>>
    feeIdx,            \* getPoolInfo: index of the fee tier being probed
    poolAddress,       \* getPoolInfo: poolAddress (Null = the code's null)
    usedFee,           \* getPoolInfo: usedFee
    fee,               \* main: fee returned by getPoolInfo (pool.fee())
    quotedAmountOut,   \* main: quotedAmountOut
    amountOutMinimum,  \* main: amountOutMinimum
    swapParams,        \* main: swapParams handed to executeSwap
    gasEstimate,       \* executeSwap: gasEstimate (-1 when estimation failed)
    swapConfirmed,     \* executeSwap returned a receipt
    outParams,         \* tryExactOutputSwap: amountOut, quoted and adjusted amountInMaximum
    error,             \* message of the error thrown to the caller ("" = none)
    cause,             \* the first error raised inside the failing function
    exitCode,          \* process exit code (-1 while running)
    txs,               \* history: transactions handed to sendTransaction
    probes,            \* history: factory.getPool calls, in order
    quotes,            \* history: quoter static calls, in order
    poolReads,         \* history: addresses the pool reads were issued to
    calls,             \* history: results of the calls of getPoolInfo ("lookup")
                       \* and of approveToken, in order
    reads,             \* the reads one Promise.all has issued, in the order given
    settled,           \* positions in reads, in the order the reads completed
    joinResult,        \* what the await of that Promise.all gave
    now,               \* Date.now(), in milliseconds
    deadlines          \* history: the deadlines built, with the time of building

fixedVars   == <<script, factory, slippage, tryExactOutput, swapAmount>>
tokenVars   == <<balance, allowance, ethBalance>>
mainVars    == <<decimalsIn, amountIn>>
approveVars == <<apAmount, apCaller, apAllowance, apStart>>
poolVars    == <<pair, feeIdx, poolAddress, usedFee, fee>>
quoteVars   == <<quotedAmountOut, amountOutMinimum, swapParams>>
swapVars    == <<gasEstimate, swapConfirmed, outParams>>
errVars     == <<error, cause, exitCode>>
readVars    == <<probes, quotes, poolReads>>
joinVars    == <<reads, settled, joinResult>>
clockVars   == <<now, deadlines>>

vars == <<script, pc, factory, balance, allowance, ethBalance, slippage,
          tryExactOutput, swapAmount, decimalsIn, amountIn, apAmount, apCaller,
          apAllowance, apStart, pair, feeIdx, poolAddress, usedFee, fee, quotedAmountOut,
          amountOutMinimum, swapParams, gasEstimate, swapConfirmed, outParams,
          error, cause, exitCode, txs, probes, quotes, poolReads, calls, joinVars, clockVars>>

----------------------------------------------------------------------------
(* Bounds of the model *)

MaxSwapAmount == 1
MaxDecimals == 1
MaxBalance == 2
MaxAllowance == 2
MaxQuote == 1
MaxGas == 1
MaxPools == 2
MaxQuotedOut == 100
MaxCalls == 2
MaxNow == 3000

----------------------------------------------------------------------------
(* Program constants *)

\* const feeTiers = [500, 3000, 10000]
feeTiers == <<500, 3000, 10000>>

\* ethers.ZeroAddress
ZeroAddress == 0

\* the code's null (poolAddress before a pool is found)
Null == -1

\* SLIPPAGE_TOLERANCE = 0.05, written as 500 / SlippageDen
SLIPPAGE_TOLERANCE == 500
SlippageDen == 10000

\* TRY_EXACT_OUTPUT = true
TRY_EXACT_OUTPUT == TRUE

\* gasLimit: ethers.parseUnits('1000000', 'wei') of executeSwap's fallback
FixedGasLimit == 1000000

\* gasLimit: ethers.parseUnits('100000', 'wei') of approveToken
ApproveGasLimit == 100000

TokenIn == "TOKEN_IN"
TokenOut == "TOKEN_OUT"

----------------------------------------------------------------------------
(* Pure helpers *)

RECURSIVE Pow10(_)
Pow10(d) == IF d = 0 THEN 1 ELSE 10 * Pow10(d - 1)

\* ethers.parseUnits(v.toString(), decimals) for a whole number v
ParseUnits(v, decimals) == v * Pow10(decimals)

\* The slippage tolerances the model draws from (in 1/SlippageDen): the configured
\* 0.05, and 0.0505, 0.07, 0.5 and 0.9995.
SlippageSamples == {SLIPPAGE_TOLERANCE, 505, 700, 5000, 9995}

\* Tolerances s of SlippageSamples for which the double (1 - s) * 1000 lies just
\* below the whole number it stands for: (1 - 0.07) * 1000 is 929.9999999999999.
RoundsBelow == {700}

\* the factor taken above one: floor((1 + s) * 1000)
FloorOneMinusAsPlus(s) == ((SlippageDen + s) * 1000) \div SlippageDen

\* Math.floor((1 - SLIPPAGE_TOLERANCE) * 1000), in IEEE double arithmetic
FloorOneMinus(s) ==
    LET exact == ((SlippageDen - s) * 1000) \div SlippageDen
    IN  IF s \in RoundsBelow THEN exact - 1 ELSE exact

\* Math.floor((1 + SLIPPAGE_TOLERANCE) * 1000); exact for every sample
FloorOnePlus(s) == ((SlippageDen + s) * 1000) \div SlippageDen

\* main: slippageFactor and amountOutMinimum before the zero guard
ScaledMinimum(quoted, s) == (quoted * FloorOneMinus(s)) \div 1000

\* mutant: the zero guard left out
ClampZeroDropped(m) == m

\* main: if (amountOutMinimum === BigInt(0)) amountOutMinimum = BigInt(1)
ClampZero(m) == IF m = 0 THEN 1 ELSE m

\* main: the amountOutMinimum placed in swapParams
MinimumOut(quoted, s) == ClampZero(ScaledMinimum(quoted, s))

\* executeSwap: gasEstimate * BigInt(130) / BigInt(100)
GasWithBuffer(g) == (g * 130) \div 100

\* mutant: the balance check off by one
BalanceInsufficientOffByOne(bal, amount) == bal + 1 < amount

\* approveToken: if (balance < amount) throw
BalanceInsufficient(bal, amount) == bal < amount

\* mutant: an allowance equal to the amount taken as insufficient
AllowanceSufficientStrict(a, amount) == a > amount

\* approveToken: if (allowance >= amount) return "Already approved"
AllowanceSufficient(a, amount) == a >= amount

----------------------------------------------------------------------------
(* The chain *)

Tokens == {TokenIn, TokenOut}
Fees == {feeTiers[i] : i \in 1..Len(feeTiers)}

\* the arguments of factory.getPool
Keys == {k \in Tokens \X Tokens \X Fees : k[1] # k[2]}

FeeIndex(f) == CHOOSE i \in 1..Len(feeTiers) : feeTiers[i] = f

\* the address of the pool the factory may hold under key k: one per key, non-zero
PoolAt(k) == FeeIndex(k[3]) + (IF k[1] = TokenIn THEN 0 ELSE Len(feeTiers))

PoolAddresses == {PoolAt(k) : k \in Keys}

\* a read of a pool method returns only from an address that holds a contract:
\* a call to the zero address returns no data, and decoding it throws
HasCode(addr) == addr # ZeroAddress

\* pool.fee() of the pool at a non-zero address
PoolFee(addr) == feeTiers[((addr - 1) % Len(feeTiers)) + 1]

\* the factory states: under each key either no pool or that key's pool, with at
\* most MaxPools pools deployed
FactoryStates == {[k \in Keys |-> IF k \in S THEN PoolAt(k) ELSE ZeroAddress] :
                    S \in {T \in SUBSET Keys : Cardinality(T) <= MaxPools}}

NoTx == [kind |-> "none", amount |-> 0, bound |-> 0, gasLimit |-> 0, fee |-> 0,
         status |-> "none"]

NoParams == [tokenIn |-> TokenIn, tokenOut |-> TokenOut, fee |-> 0, amountIn |-> 0,
             amountOutMinimum |-> 0]

NoOutParams == [amountOut |-> 0, quotedIn |-> 0, amountInMaximum |-> 0]

\* a Promise.all not settled yet
NoJoin == [state |-> "pending", values |-> <<>>]

\* the outcome of the last transaction never recorded: it stays pending
SetLastStatusDropped(seq, st) == seq

\* the last transaction of txs with its status replaced
SetLastStatus(seq, st) == [seq EXCEPT ![Len(seq)].status = st]

\* the quoter's possible answers
Quotes == (0..MaxQuote) \cup {10}

----------------------------------------------------------------------------
(* Initial states *)

\* the script's own variables before main runs
ScriptLocals ==
    /\ decimalsIn = 0 /\ amountIn = 0
    /\ apAmount = 0 /\ apCaller = "" /\ apAllowance = -1 /\ apStart = 0
    /\ pair = <<TokenIn, TokenOut>>
    /\ feeIdx = 1 /\ poolAddress = Null /\ usedFee = Null /\ fee = 0
    /\ quotedAmountOut = 0 /\ amountOutMinimum = 0 /\ swapParams = NoParams
    /\ gasEstimate = -1 /\ swapConfirmed = FALSE /\ outParams = NoOutParams
    /\ error = "" /\ cause = "" /\ exitCode = -1
    /\ txs = <<>> /\ probes = <<>> /\ quotes = <<>> /\ poolReads = <<>>
    /\ calls = <<>>
    /\ reads = <<>> /\ settled = <<>> /\ joinResult = NoJoin
    /\ deadlines = <<>>

\* the same, with the clock at its origin (the runs below do not read it)
Locals == ScriptLocals /\ now = 0

\* the chain any script may start on
Chain ==
    /\ factory \in FactoryStates
    /\ balance \in 0..MaxBalance
    /\ allowance \in 0..MaxAllowance

\* src/index.js: main(SWAP_AMOUNT) about to start
Init ==
    /\ script = "index" /\ pc = "fetchTokenIn"
    /\ Chain /\ ethBalance = 0
    /\ slippage = SLIPPAGE_TOLERANCE
    /\ tryExactOutput \in BOOLEAN
    /\ swapAmount \in 1..MaxSwapAmount
    /\ Locals

----------------------------------------------------------------------------
(* Errors *)

\* the error rethrown, the process left to end with exit code 0
ThrowExitZero(msg, why) ==
    /\ pc' = "failed" /\ error' = msg /\ cause' = why /\ exitCode' = 0

\* an error that reaches main's outer catch: rethrown, then process.exit(1)
Throw(msg, why) ==
    /\ pc' = "failed" /\ error' = msg /\ cause' = why /\ exitCode' = 1

----------------------------------------------------------------------------
(* src/index.js: main up to the approval *)

\* main: const tokenIn = await fetchTokenInfo(TOKEN_IN_ADDRESS)
FetchTokenInfoIn ==
    /\ script = "index" /\ pc = "fetchTokenIn"
    /\ \/ \E d \in 0..MaxDecimals :
            /\ decimalsIn' = d
            /\ pc' = "fetchTokenOut"
            /\ UNCHANGED errVars
       \/ /\ Throw("Failed to retrieve token info", "MetadataUnavailable")
          /\ UNCHANGED decimalsIn
    /\ UNCHANGED <<fixedVars, tokenVars, amountIn, approveVars, poolVars, quoteVars,
                   swapVars, readVars, txs, calls, joinVars, clockVars>>

\* main: const tokenOut = await fetchTokenInfo(TOKEN_OUT_ADDRESS)
FetchTokenInfoOut ==
    /\ script = "index" /\ pc = "fetchTokenOut"
    /\ \/ pc' = "logBalances" /\ UNCHANGED errVars
       \/ Throw("Failed to retrieve token info", "MetadataUnavailable")
    /\ UNCHANGED <<fixedVars, tokenVars, mainVars, approveVars, poolVars, quoteVars,
                   swapVars, readVars, txs, calls, joinVars, clockVars>>

\* main: initialBalances = await logBalances(...); amountIn = parseUnits(...);
\* then the call approveToken(tokenIn, amountIn, signer)
LogBalancesInitial ==
    /\ script = "index" /\ pc = "logBalances"
    /\ \/ /\ amountIn' = ParseUnits(swapAmount, decimalsIn)
          /\ apAmount' = amountIn' /\ apCaller' = "main" /\ apAllowance' = -1
          /\ apStart' = Len(txs)
          /\ pc' = "ap_checkBalance"
          /\ UNCHANGED errVars
       \/ /\ Throw("Failed to check balances", "BalancesUnavailable")
          /\ UNCHANGED <<amountIn, approveVars>>
    /\ UNCHANGED <<fixedVars, tokenVars, decimalsIn, poolVars, quoteVars, swapVars,
                   readVars, txs, calls, joinVars, clockVars>>

----------------------------------------------------------------------------
(* approveToken (src/index.js; the first script of index2.js has the same code) *)

\* the approval transactions the current invocation of approveToken has sent
ApproveSent == Len(txs) - apStart

\* what a call of approveToken came to: the amount asked, whether it returned or
\* threw, the allowance it read, how many transactions it sent, and its error
ApproveResult ==
    [amount |-> apAmount, ok |-> (error = ""), allowance |-> apAllowance,
     sent |-> ApproveSent, error |-> error, cause |-> cause]

\* approveToken's catch: whatever failed, it throws 'Token approval failed'
ApproveThrow(why) ==
    /\ pc' = "ap_done" /\ error' = "Token approval failed" /\ cause' = why
    /\ UNCHANGED exitCode

\* approveToken: balance = await checkBalance(...); if (balance < amount) throw
CheckBalance ==
    /\ pc = "ap_checkBalance"
    /\ \/ IF BalanceInsufficient(balance, apAmount)
          THEN ApproveThrow("InsufficientBalance")
          ELSE pc' = "ap_allowance" /\ UNCHANGED errVars
       \/ ApproveThrow("BalanceUnavailable")
    /\ UNCHANGED <<fixedVars, tokenVars, mainVars, approveVars, poolVars, quoteVars,
                   swapVars, readVars, txs, calls, joinVars, clockVars>>

\* approveToken: allowance = await tokenContract.allowance(...);
\* if (allowance >= amount) return { success: true, message: "Already approved" }
ReadAllowance ==
    /\ pc = "ap_allowance"
    /\ \/ /\ apAllowance' = allowance
          /\ pc' = IF AllowanceSufficient(allowance, apAmount) THEN "ap_done"
                   ELSE "ap_send"
          /\ UNCHANGED errVars
       \/ ApproveThrow("AllowanceUnavailable") /\ UNCHANGED apAllowance
    /\ UNCHANGED <<fixedVars, tokenVars, mainVars, apAmount, apCaller, apStart,
                   poolVars, quoteVars, swapVars, readVars, txs, calls, joinVars, clockVars>>

\* the approval made for twice the amount asked
ApproveTxDouble(amount) ==
    [kind |-> "approve", amount |-> 2 * amount, bound |-> 0,
     gasLimit |-> ApproveGasLimit, fee |-> 0, status |-> "pending"]

\* the approval transaction approveToken builds: approve(router, amount)
ApproveTx(amount) ==
    [kind |-> "approve", amount |-> amount, bound |-> 0, gasLimit |-> ApproveGasLimit,
     fee |-> 0, status |-> "pending"]

\* approveToken: transactionResponse = await wallet.sendTransaction(...)
ApproveSend ==
    /\ pc = "ap_send"
    /\ \/ /\ txs' = Append(txs, ApproveTx(apAmount))
          /\ pc' = "ap_wait"
          /\ UNCHANGED errVars
       \/ ApproveThrow("SendFailed") /\ UNCHANGED txs
    /\ UNCHANGED <<fixedVars, tokenVars, mainVars, approveVars, poolVars, quoteVars,
                   swapVars, readVars, calls, joinVars, clockVars>>

\* approveToken: receipt = await transactionResponse.wait(); a confirmed approve
\* sets the router's allowance to the approved amount
ApproveWait ==
    /\ pc = "ap_wait"
    /\ \/ /\ txs' = SetLastStatus(txs, "confirmed")
          /\ allowance' = txs[Len(txs)].amount
          /\ pc' = "ap_verify"
          /\ UNCHANGED errVars
       \/ /\ txs' = SetLastStatus(txs, "reverted")
          /\ ApproveThrow("ApprovalReverted")
          /\ UNCHANGED allowance
    /\ UNCHANGED <<fixedVars, balance, ethBalance, mainVars, approveVars, poolVars,
                   quoteVars, swapVars, readVars, calls, joinVars, clockVars>>

\* approveToken: newAllowance = await tokenContract.allowance(...); return success
ApproveVerify ==
    /\ pc = "ap_verify"
    /\ \/ pc' = "ap_done" /\ UNCHANGED errVars
       \/ ApproveThrow("AllowanceUnavailable")
    /\ UNCHANGED <<fixedVars, tokenVars, mainVars, approveVars, poolVars, quoteVars,
                   swapVars, readVars, txs, calls, joinVars, clockVars>>

\* the awaited call taken to have returned although it threw
ReturnedOrThrew == TRUE

\* an awaited call of main or tryExactOutputSwap returned: it did not throw
Returned == error = ""

\* getPoolInfo is entered: poolAddress = null, usedFee = null, first fee tier
EnterGetPoolInfo(tIn, tOut) ==
    /\ pair' = <<tIn, tOut>>
    /\ feeIdx' = 1 /\ poolAddress' = Null /\ usedFee' = Null
    /\ pc' = "gp_forward"

\* main: await approveToken(...) returns or throws; then the call of getPoolInfo
MainAfterApprove ==
    /\ script \in {"index", "old"} /\ pc = "ap_done" /\ apCaller = "main"
    /\ IF Returned
       THEN EnterGetPoolInfo(TokenIn, TokenOut) /\ UNCHANGED errVars
       ELSE /\ Throw(error, cause)
            /\ UNCHANGED <<pair, feeIdx, poolAddress, usedFee>>
    /\ calls' = Append(calls, ApproveResult)
    /\ UNCHANGED <<fixedVars, tokenVars, mainVars, approveVars, fee, quoteVars,
                   swapVars, readVars, txs, joinVars, clockVars>>

----------------------------------------------------------------------------
(* getPoolInfo (src/index.js; the first script of index2.js has the same code) *)

\* mutant: the tiers probed in descending order
TierAtDescending(i) == feeTiers[Len(feeTiers) + 1 - i]

\* mutant: the tier the loop starts at depends on the lookups made before
TierAtRotating(i) == feeTiers[((i - 1 + Len(calls)) % Len(feeTiers)) + 1]

\* the fee tier the loop is at: for (const fee of feeTiers)
TierAt(i) == feeTiers[i]

\* the arguments of the forward lookup: getPool(tokenIn, tokenOut, fee)
ForwardKey(i) == <<pair[1], pair[2], TierAt(i)>>

\* the arguments of the reverse lookup: getPool(tokenOut, tokenIn, fee)
ReverseKey(i) == <<pair[2], pair[1], TierAt(i)>>

\* mutant: the zero-address test left out
FoundAlways(address) == TRUE

\* if (address !== ethers.ZeroAddress) { poolAddress = address; usedFee = fee; break }
Found(address) == address # ZeroAddress

\* a factory.getPool call as the history keeps it: who made it, its arguments,
\* whether it returned, and the address it returned
Probe(who, key, returned) ==
    [by |-> who, key |-> key, ok |-> returned,
     address |-> IF returned THEN factory[key] ELSE ZeroAddress]

\* getPoolInfo's catch: the error is logged and rethrown as it is
PoolThrow(msg, why) ==
    /\ pc' = "gp_done" /\ error' = msg /\ cause' = why
    /\ UNCHANGED exitCode

\* first loop: address = await factoryContract.getPool(tokenIn, tokenOut, fee)
ProbeForward ==
    /\ pc = "gp_forward"
    /\ \/ LET address == factory[ForwardKey(feeIdx)] IN
          /\ probes' = Append(probes, Probe("getPoolInfo", ForwardKey(feeIdx), TRUE))
          /\ IF Found(address)
             THEN /\ poolAddress' = address /\ usedFee' = TierAt(feeIdx)
                  /\ pc' = "gp_reads"
                  /\ UNCHANGED feeIdx
             ELSE /\ UNCHANGED <<poolAddress, usedFee>>
                  /\ IF feeIdx < Len(feeTiers)
                     THEN feeIdx' = feeIdx + 1 /\ pc' = "gp_forward"
                     ELSE feeIdx' = 1 /\ pc' = "gp_reverse"
          /\ UNCHANGED errVars
       \/ /\ probes' = Append(probes, Probe("getPoolInfo", ForwardKey(feeIdx), FALSE))
          /\ PoolThrow("getPool failed", "FactoryUnavailable")
          /\ UNCHANGED <<feeIdx, poolAddress, usedFee>>
    /\ UNCHANGED <<fixedVars, tokenVars, mainVars, approveVars, pair, fee, quoteVars,
                   swapVars, quotes, poolReads, txs, calls, joinVars, clockVars>>

\* second loop (poolAddress === null): getPool(tokenOut, tokenIn, fee); after it,
\* if (poolAddress === null || poolAddress === ethers.ZeroAddress) throw
ProbeReverse ==
    /\ pc = "gp_reverse"
    /\ \/ LET address == factory[ReverseKey(feeIdx)] IN
          /\ probes' = Append(probes, Probe("getPoolInfo", ReverseKey(feeIdx), TRUE))
          /\ IF Found(address)
             THEN /\ poolAddress' = address /\ usedFee' = TierAt(feeIdx)
                  /\ pc' = "gp_reads"
                  /\ UNCHANGED <<feeIdx, errVars>>
             ELSE /\ UNCHANGED <<poolAddress, usedFee>>
                  /\ IF feeIdx < Len(feeTiers)
                     THEN feeIdx' = feeIdx + 1 /\ pc' = "gp_reverse" /\ UNCHANGED errVars
                     ELSE /\ UNCHANGED feeIdx
                          /\ PoolThrow("No pool exists with any standard fee tier",
                                       "NoPoolFound")
       \/ /\ probes' = Append(probes, Probe("getPoolInfo", ReverseKey(feeIdx), FALSE))
          /\ PoolThrow("getPool failed", "FactoryUnavailable")
          /\ UNCHANGED <<feeIdx, poolAddress, usedFee>>
    /\ UNCHANGED <<fixedVars, tokenVars, mainVars, approveVars, pair, fee, quoteVars,
                   swapVars, quotes, poolReads, txs, calls, joinVars, clockVars>>

\* Promise.all([token0(), token1(), fee(), liquidity(), slot0()]) on the pool
\* contract at poolAddress; getPoolInfo returns the fee the pool reports
PoolReads ==
    /\ pc = "gp_reads"
    /\ poolReads' = Append(poolReads, poolAddress)
    /\ \/ /\ HasCode(poolAddress)
          /\ fee' = PoolFee(poolAddress)
          /\ pc' = "gp_done"
          /\ UNCHANGED errVars
       \/ PoolThrow("pool read failed", "PoolUnavailable") /\ UNCHANGED fee
    /\ UNCHANGED <<fixedVars, tokenVars, mainVars, approveVars, pair, feeIdx,
                   poolAddress, usedFee, quoteVars, swapVars, probes, quotes, txs,
                   calls, joinVars, clockVars>>

\* main: getPoolInfo returns or throws; quoteParams is built and getQuote called
MainAfterPool ==
    /\ script \in {"index", "old"} /\ pc = "gp_done"
    /\ IF Returned
       THEN pc' = "getQuote" /\ UNCHANGED errVars
       ELSE Throw(error, cause)
    /\ UNCHANGED <<fixedVars, tokenVars, mainVars, approveVars, poolVars, quoteVars,
                   swapVars, readVars, txs, calls, joinVars, clockVars>>

----------------------------------------------------------------------------
(* src/index.js: quote, slippage bound and executeSwap *)

\* the request handed to quoterContract.quoteExactInputSingle.staticCall
QuoteCall(f, amount) ==
    [kind |-> "exactInput", tokenIn |-> TokenIn, tokenOut |-> TokenOut, fee |-> f,
     amount |-> amount]

\* swapParams with the fee fixed at the 0.3% tier instead of the pool's
SwapParamsFixedFee(f, amount, minimum) ==
    [tokenIn |-> TokenIn, tokenOut |-> TokenOut, fee |-> feeTiers[2],
     amountIn |-> amount, amountOutMinimum |-> minimum]

\* main: swapParams (recipient, deadline and the price-limit sentinel left out)
SwapParams(f, amount, minimum) ==
    [tokenIn |-> TokenIn, tokenOut |-> TokenOut, fee |-> f, amountIn |-> amount,
     amountOutMinimum |-> minimum]

\* main: quotedAmountOut = await getQuote(...); the slippage bound; swapParams;
\* then executeSwap is called and reaches its gas estimation
GetQuote ==
    /\ script = "index" /\ pc = "getQuote"
    /\ quotes' = Append(quotes, QuoteCall(fee, amountIn))
    /\ \/ \E q \in Quotes :
            /\ quotedAmountOut' = q
            /\ amountOutMinimum' = MinimumOut(q, slippage)
            /\ swapParams' = SwapParams(fee, amountIn, amountOutMinimum')
            /\ pc' = "es_estimate"
            /\ UNCHANGED errVars
       \/ /\ Throw("Failed to get quote for swap", "QuoteFailed")
          /\ UNCHANGED quoteVars
    /\ UNCHANGED <<fixedVars, tokenVars, mainVars, approveVars, poolVars, swapVars,
                   probes, poolReads, txs, calls, joinVars, clockVars>>

\* the gas estimates the node may answer
GasEstimates == {100000 * g : g \in 1..MaxGas}

\* the exactInputSingle transaction executeSwap hands to signer.sendTransaction
SwapTx(params, gas) ==
    [kind |-> "exactInputSingle", amount |-> params.amountIn,
     bound |-> params.amountOutMinimum, gasLimit |-> gas, fee |-> params.fee,
     status |-> "pending"]

\* tryExactOutputSwap: Number(formatUnits(quoted)) * 0.9 written back with
\* parseUnits: nine tenths of the quote when that is a whole number of units
\* (parseUnits rejects a value with more decimals than the token has)
DesiredParses(quoted) == (quoted * 9) % 10 = 0
DesiredOutput(quoted) == (quoted * 9) \div 10

\* the fallback taken whatever TRY_EXACT_OUTPUT says
FallbackAlways == TRUE

\* main's catch (swapError): if (TRY_EXACT_OUTPUT)
FallbackEnabled == tryExactOutput

\* main's catch (swapError): the exact-output fallback is entered when
\* TRY_EXACT_OUTPUT, else 'Swap failed and TRY_EXACT_OUTPUT is disabled' is thrown
SwapFailed(why) ==
    IF FallbackEnabled
    THEN IF DesiredParses(quotedAmountOut)
         THEN /\ pc' = "eo_quote"
              /\ outParams' = [NoOutParams EXCEPT
                                 !.amountOut = DesiredOutput(quotedAmountOut)]
              /\ UNCHANGED errVars
         ELSE /\ Throw("ExactOutputSingle swap failed", "ParseFailed")
              /\ UNCHANGED outParams
    ELSE /\ Throw("Swap failed and TRY_EXACT_OUTPUT is disabled", why)
         /\ UNCHANGED outParams

\* executeSwap's outer catch: the diagnostics run when the message holds
\* 'Transaction reverted without a reason'; 'Swap transaction failed' is thrown
\* to main either way
ExecuteSwapCatch(why) ==
    \/ /\ pc' = "dg_getPool" /\ cause' = why
       /\ UNCHANGED <<error, exitCode, outParams>>
    \/ SwapFailed(why)

\* executeSwap: gasEstimate = await swapRouter.exactInputSingle.estimateGas(params)
EstimateGas ==
    /\ script = "index" /\ pc = "es_estimate"
    /\ \/ \E g \in GasEstimates : gasEstimate' = g /\ pc' = "es_send"
       \/ gasEstimate' = -1 /\ pc' = "es_fixedSend"
    /\ UNCHANGED <<fixedVars, tokenVars, mainVars, approveVars, poolVars, quoteVars,
                   swapConfirmed, outParams, errVars, readVars, txs, calls, joinVars, clockVars>>

\* executeSwap, inner try: sendTransaction with gasLimit = gasEstimate * 130 / 100;
\* a failure is caught by catch (gasError)
SwapSend ==
    /\ script = "index" /\ pc = "es_send"
    /\ \/ /\ txs' = Append(txs, SwapTx(swapParams, GasWithBuffer(gasEstimate)))
          /\ pc' = "es_wait"
       \/ pc' = "es_fixedSend" /\ UNCHANGED txs
    /\ UNCHANGED <<fixedVars, tokenVars, mainVars, approveVars, poolVars, quoteVars,
                   swapVars, errVars, readVars, calls, joinVars, clockVars>>

\* a confirmed exactInputSingle moves amountIn out of the wallet through the
\* router's allowance
SwapSettles ==
    /\ balance >= swapParams.amountIn /\ allowance >= swapParams.amountIn
    /\ balance' = balance - swapParams.amountIn
    /\ allowance' = allowance - swapParams.amountIn
    /\ txs' = SetLastStatus(txs, "confirmed")
    /\ swapConfirmed' = TRUE
    /\ pc' = "finalBalances"

\* executeSwap, inner try: receipt = await transactionResponse.wait(); a revert
\* is caught by catch (gasError)
SwapWait ==
    /\ script = "index" /\ pc = "es_wait"
    /\ \/ SwapSettles
       \/ /\ txs' = SetLastStatus(txs, "reverted")
          /\ pc' = "es_fixedSend"
          /\ UNCHANGED <<balance, allowance, swapConfirmed>>
    /\ UNCHANGED <<fixedVars, ethBalance, mainVars, approveVars, poolVars, quoteVars,
                   gasEstimate, outParams, errVars, readVars, calls, joinVars, clockVars>>

\* executeSwap, catch (gasError): sendTransaction with the fixed gas limit
SwapFixedSend ==
    /\ script = "index" /\ pc = "es_fixedSend"
    /\ \/ /\ txs' = Append(txs, SwapTx(swapParams, FixedGasLimit))
          /\ pc' = "es_fixedWait"
          /\ UNCHANGED <<outParams, errVars>>
       \/ ExecuteSwapCatch("SendFailed") /\ UNCHANGED txs
    /\ UNCHANGED <<fixedVars, tokenVars, mainVars, approveVars, poolVars, quoteVars,
                   gasEstimate, swapConfirmed, readVars, calls, joinVars, clockVars>>

\* executeSwap, catch (gasError): receipt = await transactionResponse.wait()
SwapFixedWait ==
    /\ script = "index" /\ pc = "es_fixedWait"
    /\ \/ SwapSettles /\ UNCHANGED <<outParams, errVars>>
       \/ /\ txs' = SetLastStatus(txs, "reverted")
          /\ ExecuteSwapCatch("SwapReverted")
          /\ UNCHANGED <<balance, allowance, swapConfirmed>>
    /\ UNCHANGED <<fixedVars, ethBalance, mainVars, approveVars, poolVars, quoteVars,
                   gasEstimate, readVars, calls, joinVars, clockVars>>

\* the diagnostics taken to settle the failure: executeSwap returns to main
DiagnosticsReturn(why) ==
    pc' = "finalBalances" /\ UNCHANGED <<outParams, errVars>>

\* executeSwap, after the diagnostics or their catch (diagnosticError), which
\* only logs: throw new Error('Swap transaction failed'), caught by main
DiagnosticsDone(why) == SwapFailed(why)

\* diagnostics: the arguments of getPool(params.tokenIn, params.tokenOut, params.fee)
DiagKey == <<swapParams.tokenIn, swapParams.tokenOut, swapParams.fee>>

\* diagnostics: poolAddress = await factoryContract.getPool(tokenIn, tokenOut, fee)
DiagGetPool ==
    /\ script = "index" /\ pc = "dg_getPool"
    /\ \/ /\ probes' = Append(probes, Probe("diagnostics", DiagKey, TRUE))
          /\ pc' = "dg_liquidity"
          /\ UNCHANGED <<outParams, errVars>>
       \/ /\ probes' = Append(probes, Probe("diagnostics", DiagKey, FALSE))
          /\ DiagnosticsDone(cause)
    /\ UNCHANGED <<fixedVars, tokenVars, mainVars, approveVars, poolVars, quoteVars,
                   gasEstimate, swapConfirmed, quotes, poolReads, txs, calls, joinVars, clockVars>>

\* diagnostics: liquidity = await poolContract.liquidity(), on the address the
\* factory holds for (tokenIn, tokenOut, fee)
DiagLiquidity ==
    /\ script = "index" /\ pc = "dg_liquidity"
    /\ poolReads' = Append(poolReads, factory[DiagKey])
    /\ \/ /\ HasCode(factory[DiagKey])
          /\ pc' = "dg_quote"
          /\ UNCHANGED <<outParams, errVars>>
       \/ DiagnosticsDone(cause)
    /\ UNCHANGED <<fixedVars, tokenVars, mainVars, approveVars, poolVars, quoteVars,
                   gasEstimate, swapConfirmed, probes, quotes, txs, calls, joinVars, clockVars>>

\* diagnostics: smallerAmount = params.amountIn * BigInt(10) / BigInt(100)
SmallerAmount(amount) == (amount * 10) \div 100

\* diagnostics: the quote for the smaller amount; whether it succeeds or fails,
\* executeSwap then throws 'Swap transaction failed'
DiagQuote ==
    /\ script = "index" /\ pc = "dg_quote"
    /\ quotes' = Append(quotes, QuoteCall(swapParams.fee, SmallerAmount(swapParams.amountIn)))
    /\ DiagnosticsDone(cause)
    /\ UNCHANGED <<fixedVars, tokenVars, mainVars, approveVars, poolVars, quoteVars,
                   gasEstimate, swapConfirmed, probes, poolReads, txs, calls, joinVars, clockVars>>

\* main: finalBalances = await logBalances(...) inside the try around executeSwap;
\* its failure lands in catch (swapError) like a failed swap
FinalBalances ==
    /\ script = "index" /\ pc = "finalBalances"
    /\ \/ /\ pc' = "done" /\ exitCode' = 0
          /\ UNCHANGED <<error, cause, outParams>>
       \/ SwapFailed("BalancesUnavailable")
    /\ UNCHANGED <<fixedVars, tokenVars, mainVars, approveVars, poolVars, quoteVars,
                   gasEstimate, swapConfirmed, readVars, txs, calls, joinVars, clockVars>>

----------------------------------------------------------------------------
(* src/index.js: tryExactOutputSwap, the fallback of main's catch (swapError) *)

\* the maximum narrowed by the tolerance instead of widened
AdjustedMaximumNarrowed(quotedIn, s) == (quotedIn * FloorOneMinus(s)) \div 1000

\* adjustedAmountInMaximum = (amountInMaximum * slippageFactor) / BigInt(1000)
AdjustedMaximum(quotedIn, s) == (quotedIn * FloorOnePlus(s)) \div 1000

\* the quoter's possible answers to quoteExactOutputSingle: small inputs, and one
\* large enough for the tolerance to widen it
QuotedInputs == (1..MaxQuote) \cup {40}

\* the exactOutputSingle transaction handed to signer.sendTransaction
OutputTx(params, f) ==
    [kind |-> "exactOutputSingle", amount |-> params.amountOut,
     bound |-> params.amountInMaximum, gasLimit |-> FixedGasLimit, fee |-> f,
     status |-> "pending"]

\* quotedResult = await quoterContract.quoteExactOutputSingle.staticCall(...);
\* the maximum input with slippage; then approveToken(tokenIn, adjusted, signer)
ExactOutputQuote ==
    /\ script \in {"index", "fallback"} /\ pc = "eo_quote"
    /\ quotes' = Append(quotes, [QuoteCall(fee, outParams.amountOut) EXCEPT
                                   !.kind = "exactOutput"])
    /\ \/ \E quotedIn \in QuotedInputs :
            /\ outParams' = [outParams EXCEPT
                               !.quotedIn = quotedIn,
                               !.amountInMaximum = AdjustedMaximum(quotedIn, slippage)]
            /\ apAmount' = outParams'.amountInMaximum
            /\ apCaller' = "exactOutput" /\ apAllowance' = -1
            /\ apStart' = Len(txs)
            /\ pc' = "ap_checkBalance"
            /\ UNCHANGED errVars
       \/ /\ Throw("ExactOutputSingle swap failed", "QuoteFailed")
          /\ UNCHANGED <<outParams, approveVars>>
    /\ UNCHANGED <<fixedVars, tokenVars, mainVars, poolVars, quoteVars, gasEstimate,
                   swapConfirmed, probes, poolReads, txs, calls, joinVars, clockVars>>

\* tryExactOutputSwap: await approveToken(...) returns, or its error is caught
\* and 'ExactOutputSingle swap failed' thrown
ExactOutputAfterApprove ==
    /\ script \in {"index", "fallback"} /\ pc = "ap_done" /\ apCaller = "exactOutput"
    /\ IF Returned
       THEN pc' = "eo_send" /\ UNCHANGED errVars
       ELSE Throw("ExactOutputSingle swap failed", cause)
    /\ calls' = Append(calls, ApproveResult)
    /\ UNCHANGED <<fixedVars, tokenVars, mainVars, approveVars, poolVars, quoteVars,
                   swapVars, readVars, txs, joinVars, clockVars>>

\* transactionResponse = await signer.sendTransaction(txWithGas)
ExactOutputSend ==
    /\ script \in {"index", "fallback"} /\ pc = "eo_send"
    /\ \/ /\ txs' = Append(txs, OutputTx(outParams, fee))
          /\ pc' = "eo_wait"
          /\ UNCHANGED errVars
       \/ Throw("ExactOutputSingle swap failed", "SendFailed") /\ UNCHANGED txs
    /\ UNCHANGED <<fixedVars, tokenVars, mainVars, approveVars, poolVars, quoteVars,
                   swapVars, readVars, calls, joinVars, clockVars>>

\* receipt = await transactionResponse.wait(); a confirmed exactOutputSingle
\* takes the quoted input out of the wallet
ExactOutputWait ==
    /\ script \in {"index", "fallback"} /\ pc = "eo_wait"
    /\ \/ /\ balance >= outParams.quotedIn /\ allowance >= outParams.quotedIn
          /\ balance' = balance - outParams.quotedIn
          /\ allowance' = allowance - outParams.quotedIn
          /\ txs' = SetLastStatus(txs, "confirmed")
          /\ pc' = "eo_finalBalances"
          /\ UNCHANGED errVars
       \/ /\ txs' = SetLastStatus(txs, "reverted")
          /\ Throw("ExactOutputSingle swap failed", "SwapReverted")
          /\ UNCHANGED <<balance, allowance>>
    /\ UNCHANGED <<fixedVars, ethBalance, mainVars, approveVars, poolVars, quoteVars,
                   swapVars, readVars, calls, joinVars, clockVars>>

\* main's catch (swapError): finalBalances = await logBalances(...), then return
ExactOutputFinalBalances ==
    /\ script \in {"index", "fallback"} /\ pc = "eo_finalBalances"
    /\ \/ pc' = "done" /\ exitCode' = 0 /\ UNCHANGED <<error, cause>>
       \/ Throw("Failed to check balances", "BalancesUnavailable")
    /\ UNCHANGED <<fixedVars, tokenVars, mainVars, approveVars, poolVars, quoteVars,
                   swapVars, readVars, txs, calls, joinVars, clockVars>>

----------------------------------------------------------------------------
(* The run of src/index.js *)

Next ==
    \/ FetchTokenInfoIn \/ FetchTokenInfoOut \/ LogBalancesInitial
    \/ CheckBalance \/ ReadAllowance \/ ApproveSend \/ ApproveWait \/ ApproveVerify
    \/ MainAfterApprove
    \/ ProbeForward \/ ProbeReverse \/ PoolReads \/ MainAfterPool
    \/ GetQuote
    \/ EstimateGas \/ SwapSend \/ SwapWait \/ SwapFixedSend \/ SwapFixedWait
    \/ DiagGetPool \/ DiagLiquidity \/ DiagQuote \/ FinalBalances
    \/ ExactOutputQuote \/ ExactOutputAfterApprove \/ ExactOutputSend
    \/ ExactOutputWait \/ ExactOutputFinalBalances

Spec == Init /\ [][Next]_vars

----------------------------------------------------------------------------
(* Properties of the run of src/index.js *)

\* the transactions of one kind handed to sendTransaction so far
TxsOf(kind) == SelectSeq(txs, LAMBDA t : t.kind = kind)

\* the factory lookups getPoolInfo has made so far
PoolProbes == SelectSeq(probes, LAMBDA p : p.by = "getPoolInfo")

\* the order in which getPoolInfo(pair) may probe the factory
ProbeOrder ==
    <<<<pair[1], pair[2], 500>>, <<pair[1], pair[2], 3000>>, <<pair[1], pair[2], 10000>>,
      <<pair[2], pair[1], 500>>, <<pair[2], pair[1], 3000>>, <<pair[2], pair[1], 10000>>>>

\* C3: every exactInputSingle transaction src/index.js submits carries
\* amountOutMinimum >= 1.
C3_MinimumAtLeastOne ==
    \A i \in 1..Len(txs) : txs[i].kind = "exactInputSingle" => txs[i].bound >= 1

\* C3 witness: a swap was submitted for a quote whose scaled minimum is zero.
C3_Witness ==
    /\ Len(TxsOf("exactInputSingle")) >= 1
    /\ ScaledMinimum(quotedAmountOut, slippage) = 0

\* C4: getPoolInfo probes (in,out,500), (in,out,3000), (in,out,10000), (out,in,500),
\* (out,in,3000), (out,in,10000) in that order, issues no lookup after one that
\* returned a non-zero address, and takes that address as the pool.
C4_ProbeOrder ==
    LET ps == PoolProbes IN
    /\ Len(ps) <= Len(ProbeOrder)
    /\ \A i \in 1..Len(ps) : ps[i].key = ProbeOrder[i]
    /\ \A i \in 1..(Len(ps) - 1) : ps[i].ok /\ ps[i].address = ZeroAddress
    /\ poolAddress # Null =>
         /\ Len(ps) >= 1
         /\ ps[Len(ps)].ok
         /\ ps[Len(ps)].address = poolAddress
         /\ poolAddress # ZeroAddress
         /\ Len(poolReads) >= 1 => poolReads[1] = poolAddress
    /\ (Len(ps) >= 1 /\ ps[Len(ps)].ok /\ ps[Len(ps)].address # ZeroAddress) =>
         poolAddress = ps[Len(ps)].address

\* C4 witness: the lookup stopped at a pool although a later key holds one too.
C4_Witness ==
    /\ pc = "gp_done" /\ error = ""
    /\ Len(PoolProbes) = 2
    /\ \E i \in 3..Len(ProbeOrder) : factory[ProbeOrder[i]] # ZeroAddress

\* the factory holds no pool under any of the six keys
NoPoolAnywhere == \A k \in Keys : factory[k] = ZeroAddress

\* C5: when all six lookups return the zero address, getPoolInfo fails with the
\* no-pool error, and no quote call, pool read or swap transaction is issued.
C5_NoPoolFails ==
    NoPoolAnywhere =>
        /\ quotes = <<>>
        /\ poolReads = <<>>
        /\ TxsOf("exactInputSingle") = <<>> /\ TxsOf("exactOutputSingle") = <<>>
        /\ poolAddress = Null
        /\ (Len(PoolProbes) = 6 /\ PoolProbes[6].ok) =>
              /\ pc \in {"gp_done", "failed"}
              /\ cause = "NoPoolFound"
              /\ error = "No pool exists with any standard fee tier"
        /\ pc \notin {"getQuote", "es_estimate", "es_send", "es_wait", "es_fixedSend",
                      "es_fixedWait", "finalBalances", "done"}

\* C5 witness: six lookups returned the zero address and the run has failed.
C5_Witness ==
    /\ NoPoolAnywhere
    /\ Len(PoolProbes) = 6 /\ PoolProbes[6].ok
    /\ pc = "failed" /\ exitCode = 1

\* C8: approveToken submits an approval transaction if and only if the allowance
\* it read is below the amount; with an allowance >= the amount it returns
\* success without a transaction.
C8_ApproveOnlyIfNeeded ==
    pc \in {"ap_checkBalance", "ap_allowance", "ap_send", "ap_wait", "ap_verify", "ap_done"} =>
        /\ ApproveSent \in {0, 1}
        /\ ApproveSent = 1 =>
              /\ apAllowance # -1 /\ apAllowance < apAmount
              /\ txs[Len(txs)].kind = "approve" /\ txs[Len(txs)].amount = apAmount
        /\ (apAllowance # -1 /\ apAllowance >= apAmount) =>
              /\ ApproveSent = 0
              /\ pc = "ap_done" /\ error = ""
        /\ (apAllowance # -1 /\ apAllowance < apAmount /\ pc = "ap_done" /\ error = "") =>
              ApproveSent = 1

\* C8 witness: approveToken returned success without a transaction on an
\* allowance equal to the amount.
C8_Witness ==
    /\ pc = "ap_done" /\ error = ""
    /\ apAllowance = apAmount /\ ApproveSent = 0

\* C10: with a balance below the amount approveToken fails before it reads the
\* allowance or submits a transaction; in src/index.js the run then ends with no
\* transaction submitted.
C10_InsufficientBalanceFirst ==
    /\ pc \in {"ap_allowance", "ap_send", "ap_wait", "ap_verify"} => balance >= apAmount
    /\ (pc = "ap_done" /\ error = "") => balance >= apAmount
    /\ (cause = "InsufficientBalance" /\ pc = "ap_done") =>
          /\ balance < apAmount
          /\ apAllowance = -1 /\ ApproveSent = 0
          /\ error = "Token approval failed"
    /\ (cause = "InsufficientBalance" /\ apCaller = "main") =>
          /\ txs = <<>>
          /\ pc \in {"ap_done", "failed"}
          /\ pc = "failed" => exitCode = 1

\* C10 witness: the run of src/index.js ended on the balance check of the first
\* approval, with nothing submitted.
C10_Witness ==
    /\ script = "index" /\ pc = "failed" /\ apCaller = "main"
    /\ cause = "InsufficientBalance" /\ balance < apAmount /\ txs = <<>>

----------------------------------------------------------------------------
(* The slippage bound of src/index.js main as a function of the quote and of   *)
(* SLIPPAGE_TOLERANCE: the inputs are drawn at the start, one step applies it. *)

InitSlippage ==
    /\ script = "slippage" /\ pc = "quoted"
    /\ factory \in {f \in FactoryStates : \A k \in Keys : f[k] = ZeroAddress}
    /\ balance = 0 /\ allowance = 0 /\ ethBalance = 0
    /\ slippage \in SlippageSamples
    /\ tryExactOutput = TRY_EXACT_OUTPUT
    /\ swapAmount = 1
    /\ decimalsIn = 0 /\ amountIn = 1
    /\ apAmount = 0 /\ apCaller = "" /\ apAllowance = -1 /\ apStart = 0
    /\ pair = <<TokenIn, TokenOut>>
    /\ feeIdx = 1 /\ poolAddress = Null /\ usedFee = Null /\ fee = TierAt(1)
    /\ quotedAmountOut \in (0..MaxQuotedOut) \cup {4000}
    /\ amountOutMinimum = 0 /\ swapParams = NoParams
    /\ gasEstimate = -1 /\ swapConfirmed = FALSE /\ outParams = NoOutParams
    /\ error = "" /\ cause = "" /\ exitCode = -1
    /\ txs = <<>> /\ probes = <<>> /\ quotes = <<>> /\ poolReads = <<>>
    /\ calls = <<>>
    /\ reads = <<>> /\ settled = <<>> /\ joinResult = NoJoin
    /\ now = 0 /\ deadlines = <<>>

\* main, from the quote to swapParams: slippageFactor, amountOutMinimum, the zero
\* guard, swapParams
BuildSwapParams ==
    /\ script = "slippage" /\ pc = "quoted"
    /\ amountOutMinimum' = MinimumOut(quotedAmountOut, slippage)
    /\ swapParams' = SwapParams(fee, amountIn, amountOutMinimum')
    /\ pc' = "built"
    /\ UNCHANGED <<fixedVars, tokenVars, mainVars, approveVars, poolVars,
                   quotedAmountOut, swapVars, errVars, readVars, txs, calls, joinVars, clockVars>>

SpecSlippage == InitSlippage /\ [][BuildSwapParams]_vars

\* floor(quotedOut * (1 - s)) in exact arithmetic
ExactMinimum(quoted, s) == (quoted * (SlippageDen - s)) \div SlippageDen

\* Math.floor((1 - s) * 1000) is (1 - s) * 1000 itself
FactorIsExact(s) == FloorOneMinus(s) * SlippageDen = (SlippageDen - s) * 1000

\* C1 as stated: for every s in (0,1) and every quote, the amountOutMinimum of the
\* swap parameters is floor(quotedOut * (1 - s)), a zero result replaced by 1.
C1_Original ==
    pc = "built" =>
        swapParams.amountOutMinimum
            = (IF ExactMinimum(quotedAmountOut, slippage) = 0 THEN 1
               ELSE ExactMinimum(quotedAmountOut, slippage))

\* C1 on the code: the equality holds whenever Math.floor((1 - s) * 1000) is
\* (1 - s) * 1000 itself, as for the configured 0.05; for any s the bound is at
\* least 1 and never above floor(quotedOut * (1 - s)) with zero replaced by 1.
C1_MinimumOut ==
    pc = "built" =>
        LET exact == ExactMinimum(quotedAmountOut, slippage)
            claimed == IF exact = 0 THEN 1 ELSE exact
        IN  /\ FactorIsExact(slippage) => swapParams.amountOutMinimum = claimed
            /\ swapParams.amountOutMinimum >= 1
            /\ swapParams.amountOutMinimum <= claimed

\* C1 witness: for s = 0.07 and a quote of 100 the bound built is 92, not 93.
C1_Witness ==
    /\ pc = "built" /\ slippage = 700
    /\ quotedAmountOut = 100 /\ swapParams.amountOutMinimum = 92
    /\ ExactMinimum(quotedAmountOut, slippage) = 93

----------------------------------------------------------------------------
(* getPoolInfo called repeatedly on one factory state *)

InitLookup ==
    /\ script = "lookup" /\ pc = "idle"
    /\ factory \in FactoryStates
    /\ balance = 0 /\ allowance = 0 /\ ethBalance = 0
    /\ slippage = SLIPPAGE_TOLERANCE
    /\ tryExactOutput = TRY_EXACT_OUTPUT
    /\ swapAmount = 1
    /\ Locals

\* a caller invokes getPoolInfo(a, b)
LookupCall ==
    /\ script = "lookup" /\ pc = "idle" /\ Len(calls) < MaxCalls
    /\ \E a \in Tokens : \E b \in Tokens \ {a} : EnterGetPoolInfo(a, b)
    /\ fee' = 0 /\ error' = "" /\ cause' = ""
    /\ UNCHANGED <<fixedVars, tokenVars, mainVars, approveVars, quoteVars, swapVars,
                   exitCode, readVars, txs, calls, joinVars, clockVars>>

\* what getPoolInfo gave its caller: a pool, the no-pool error, or a failed call
LookupOutcome ==
    IF error = "" THEN "pool" ELSE IF cause = "NoPoolFound" THEN "noPool" ELSE "unavailable"

\* getPoolInfo returns to the caller, who keeps what it resolved to
LookupReturn ==
    /\ script = "lookup" /\ pc = "gp_done"
    /\ calls' = Append(calls, [pair |-> pair, outcome |-> LookupOutcome,
                               address |-> IF error = "" THEN poolAddress ELSE Null,
                               fee |-> IF error = "" THEN fee ELSE 0])
    /\ pc' = "idle"
    /\ UNCHANGED <<fixedVars, tokenVars, mainVars, approveVars, poolVars, quoteVars,
                   swapVars, errVars, readVars, txs, joinVars, clockVars>>

NextLookup == LookupCall \/ ProbeForward \/ ProbeReverse \/ PoolReads \/ LookupReturn

SpecLookup == InitLookup /\ [][NextLookup]_vars

----------------------------------------------------------------------------
(* approveToken called repeatedly, nothing else touching the token in between *)

InitApprove ==
    /\ script = "approve" /\ pc = "idle"
    /\ factory \in {f \in FactoryStates : \A k \in Keys : f[k] = ZeroAddress}
    /\ balance \in 0..MaxBalance
    /\ allowance \in 0..MaxAllowance
    /\ ethBalance = 0
    /\ slippage = SLIPPAGE_TOLERANCE
    /\ tryExactOutput = TRY_EXACT_OUTPUT
    /\ swapAmount = 1
    /\ Locals

\* a caller invokes approveToken(tokenIn, amount, wallet)
ApproveCall ==
    /\ script = "approve" /\ pc = "idle" /\ Len(calls) < MaxCalls
    /\ \E amount \in 1..MaxBalance : apAmount' = amount
    /\ apCaller' = "caller" /\ apAllowance' = -1 /\ apStart' = Len(txs)
    /\ pc' = "ap_checkBalance"
    /\ error' = "" /\ cause' = ""
    /\ UNCHANGED <<fixedVars, tokenVars, mainVars, poolVars, quoteVars, swapVars,
                   exitCode, readVars, txs, calls, joinVars, clockVars>>

\* approveToken returns or throws; the caller keeps the amount, whether it
\* succeeded, the error it caught, and how many transactions were submitted
\* (cause is what went wrong inside, which the caller does not see)
ApproveReturn ==
    /\ script = "approve" /\ pc = "ap_done"
    /\ calls' = Append(calls, ApproveResult)
    /\ pc' = "idle"
    /\ UNCHANGED <<fixedVars, tokenVars, mainVars, approveVars, poolVars, quoteVars,
                   swapVars, errVars, readVars, txs, joinVars, clockVars>>

NextApprove ==
    \/ ApproveCall \/ CheckBalance \/ ReadAllowance \/ ApproveSend \/ ApproveWait
    \/ ApproveVerify \/ ApproveReturn

SpecApprove == InitApprove /\ [][NextApprove]_vars

----------------------------------------------------------------------------
(* src/old_scripts/index2.js, first script: WETH -> USDC with SWAP_AMOUNT 0.1.  *)
(* Its approveToken and getPoolInfo are the code of src/index.js, so the run     *)
(* shares those steps.  WETH is counted in units of the swap amount, so that     *)
(* parseEther and parseUnits of swapAmount are swapAmount units.                 *)

WrapGasLimit == 200000
OldSwapGasLimit == 500000

InitOld ==
    /\ script = "old" /\ pc = "old_logBalances"
    /\ Chain /\ ethBalance \in 0..MaxBalance
    /\ slippage = SLIPPAGE_TOLERANCE
    /\ tryExactOutput = FALSE
    /\ swapAmount \in 1..MaxSwapAmount
    /\ Locals

\* main: initialBalances = await logBalances(signer); then wrapEthToWeth is called
OldLogBalances ==
    /\ script = "old" /\ pc = "old_logBalances"
    /\ \/ pc' = "wr_balance" /\ UNCHANGED errVars
       \/ Throw("Failed to check balances", "BalancesUnavailable")
    /\ UNCHANGED <<fixedVars, tokenVars, mainVars, approveVars, poolVars, quoteVars,
                   swapVars, readVars, txs, calls, joinVars, clockVars>>

\* a deposit that sends no value
WrapTxNoValue(amount, gas) ==
    [kind |-> "deposit", amount |-> 0, bound |-> 0, gasLimit |-> gas, fee |-> 0,
     status |-> "pending"]

\* the deposit transaction wrapEthToWeth hands to wallet.sendTransaction
WrapTx(amount, gas) ==
    [kind |-> "deposit", amount |-> amount, bound |-> 0, gasLimit |-> gas, fee |-> 0,
     status |-> "pending"]

\* wrapEthToWeth: ethBalance = await provider.getBalance(...);
\* if (ethBalance < ethToWrap) throw; every error leaves as 'ETH wrapping failed'
WrapBalance ==
    /\ script = "old" /\ pc = "wr_balance"
    /\ \/ IF ethBalance < swapAmount
          THEN Throw("ETH wrapping failed", "InsufficientEth")
          ELSE pc' = "wr_send" /\ UNCHANGED errVars
       \/ Throw("ETH wrapping failed", "BalanceUnavailable")
    /\ UNCHANGED <<fixedVars, tokenVars, mainVars, approveVars, poolVars, quoteVars,
                   swapVars, readVars, txs, calls, joinVars, clockVars>>

\* wrapEthToWeth: txResponse = await wallet.sendTransaction({...depositTx, gasLimit})
WrapSend ==
    /\ script = "old" /\ pc = "wr_send"
    /\ \/ /\ txs' = Append(txs, WrapTx(swapAmount, WrapGasLimit))
          /\ pc' = "wr_wait"
          /\ UNCHANGED errVars
       \/ Throw("ETH wrapping failed", "SendFailed") /\ UNCHANGED txs
    /\ UNCHANGED <<fixedVars, tokenVars, mainVars, approveVars, poolVars, quoteVars,
                   swapVars, readVars, calls, joinVars, clockVars>>

\* wrapEthToWeth: receipt = await txResponse.wait(); a confirmed deposit turns the
\* ETH sent into WETH
WrapWait ==
    /\ script = "old" /\ pc = "wr_wait"
    /\ \/ /\ txs' = SetLastStatus(txs, "confirmed")
          /\ ethBalance' = ethBalance - txs[Len(txs)].amount
          /\ balance' = balance + txs[Len(txs)].amount
          /\ pc' = "wr_read"
          /\ UNCHANGED errVars
       \/ /\ txs' = SetLastStatus(txs, "reverted")
          /\ Throw("ETH wrapping failed", "DepositReverted")
          /\ UNCHANGED <<balance, ethBalance>>
    /\ UNCHANGED <<fixedVars, allowance, mainVars, approveVars, poolVars, quoteVars,
                   swapVars, readVars, calls, joinVars, clockVars>>

\* wrapEthToWeth: wethBalance = await wethContractView.balanceOf(...); back in main
\* amountIn = parseUnits(...), then the call approveToken(WETH.address, ...)
WrapRead ==
    /\ script = "old" /\ pc = "wr_read"
    /\ \/ /\ amountIn' = swapAmount
          /\ apAmount' = amountIn' /\ apCaller' = "main" /\ apAllowance' = -1
          /\ apStart' = Len(txs)
          /\ pc' = "ap_checkBalance"
          /\ UNCHANGED errVars
       \/ /\ Throw("ETH wrapping failed", "BalanceUnavailable")
          /\ UNCHANGED <<amountIn, approveVars>>
    /\ UNCHANGED <<fixedVars, tokenVars, decimalsIn, poolVars, quoteVars, swapVars,
                   readVars, txs, calls, joinVars, clockVars>>

\* slippageFactor = BigInt(Math.floor((1 - SLIPPAGE_TOLERANCE) * 1000)) / BigInt(1000)
OldSlippageFactor(s) == FloorOneMinus(s) \div 1000

\* amountOutMinimum = (quotedAmountOut * slippageFactor) / BigInt(1)
OldMinimumOut(quoted, s) == (quoted * OldSlippageFactor(s)) \div 1

\* the quoter's possible answers to the first script: those of src/index.js and
\* 150.25 USDC
OldQuotes == Quotes \cup {150250000}

\* main: quotedAmountOut = await getQuote(...); the slippage bound; swapParams;
\* then executeSwap is called and reaches its sendTransaction
OldGetQuote ==
    /\ script = "old" /\ pc = "getQuote"
    /\ quotes' = Append(quotes, QuoteCall(fee, amountIn))
    /\ \/ \E q \in OldQuotes :
            /\ quotedAmountOut' = q
            /\ amountOutMinimum' = OldMinimumOut(q, slippage)
            /\ swapParams' = SwapParams(fee, amountIn, amountOutMinimum')
            /\ pc' = "old_send"
            /\ UNCHANGED errVars
       \/ /\ Throw("Failed to get quote for swap", "QuoteFailed")
          /\ UNCHANGED quoteVars
    /\ UNCHANGED <<fixedVars, tokenVars, mainVars, approveVars, poolVars, swapVars,
                   probes, poolReads, txs, calls, joinVars, clockVars>>

\* executeSwap: transactionResponse = await signer.sendTransaction(txWithGas)
OldSwapSend ==
    /\ script = "old" /\ pc = "old_send"
    /\ \/ /\ txs' = Append(txs, SwapTx(swapParams, OldSwapGasLimit))
          /\ pc' = "old_wait"
          /\ UNCHANGED errVars
       \/ Throw("Swap transaction failed", "SendFailed") /\ UNCHANGED txs
    /\ UNCHANGED <<fixedVars, tokenVars, mainVars, approveVars, poolVars, quoteVars,
                   swapVars, readVars, calls, joinVars, clockVars>>

\* executeSwap: receipt = await transactionResponse.wait()
OldSwapWait ==
    /\ script = "old" /\ pc = "old_wait"
    /\ \/ /\ balance >= swapParams.amountIn /\ allowance >= swapParams.amountIn
          /\ balance' = balance - swapParams.amountIn
          /\ allowance' = allowance - swapParams.amountIn
          /\ txs' = SetLastStatus(txs, "confirmed")
          /\ swapConfirmed' = TRUE
          /\ pc' = "old_finalBalances"
          /\ UNCHANGED errVars
       \/ /\ txs' = SetLastStatus(txs, "reverted")
          /\ Throw("Swap transaction failed", "SwapReverted")
          /\ UNCHANGED <<balance, allowance, swapConfirmed>>
    /\ UNCHANGED <<fixedVars, ethBalance, mainVars, approveVars, poolVars, quoteVars,
                   gasEstimate, outParams, readVars, calls, joinVars, clockVars>>

\* main: finalBalances = await logBalances(signer); the result is returned
OldFinalBalances ==
    /\ script = "old" /\ pc = "old_finalBalances"
    /\ \/ pc' = "done" /\ exitCode' = 0 /\ UNCHANGED <<error, cause>>
       \/ Throw("Failed to check balances", "BalancesUnavailable")
    /\ UNCHANGED <<fixedVars, tokenVars, mainVars, approveVars, poolVars, quoteVars,
                   swapVars, readVars, txs, calls, joinVars, clockVars>>

NextOld ==
    \/ OldLogBalances \/ WrapBalance \/ WrapSend \/ WrapWait \/ WrapRead
    \/ CheckBalance \/ ReadAllowance \/ ApproveSend \/ ApproveWait \/ ApproveVerify
    \/ MainAfterApprove
    \/ ProbeForward \/ ProbeReverse \/ PoolReads \/ MainAfterPool
    \/ OldGetQuote \/ OldSwapSend \/ OldSwapWait \/ OldFinalBalances

SpecOld == InitOld /\ [][NextOld]_vars

\* floor(quoted * 950 / 1000), the product taken in two parts
Floor950(quoted) == (quoted \div 1000) * 950 + ((quoted % 1000) * 950) \div 1000

\* C2 as stated: in the first script of old_scripts/index2.js the amountOutMinimum
\* passed to the swap is floor(quotedAmountOut * 950 / 1000) for every quote; a
\* quote of 150250000 gives 142737500.
C2_Original ==
    \A i \in 1..Len(txs) :
        txs[i].kind = "exactInputSingle" =>
            /\ txs[i].bound = Floor950(quotedAmountOut)
            /\ quotedAmountOut = 150250000 => txs[i].bound = 142737500

\* C2 on the code: the first script of old_scripts/index2.js divides 950 by 1000
\* in integers first, so the amountOutMinimum passed to the swap is zero whatever
\* the quote.
C2_PassesZero ==
    \A i \in 1..Len(txs) : txs[i].kind = "exactInputSingle" => txs[i].bound = 0

\* C2 witness: the swap was submitted for the quote of 150250000.
C2_Witness ==
    /\ Len(txs) >= 1 /\ txs[Len(txs)].kind = "exactInputSingle"
    /\ quotedAmountOut = 150250000

----------------------------------------------------------------------------
(* src/old_scripts/index2.js, second script: the single-tier WETH -> USDC swap  *)
(* of 0.01, with its own logBalances, wrapEthToWeth, approveToken, getPoolInfo,  *)
(* quoteAndLogSwap, prepareSwapParams and executeSwap.  WETH is counted in units *)
(* of the swap amount.                                                           *)

\* ethers.AddressZero: ethers v6, whose API the script uses, has no such property
\* (the constant is ethers.ZeroAddress), so the expression is undefined
Undefined == -2
EthersAddressZero == Undefined

LegacyFee == 3000
LegacySlippage == 50
LegacyWrapGasLimit == 100000
LegacySwapGasLimit == 300000

InitLegacy ==
    /\ script = "legacy" /\ pc = "lg_balances1"
    /\ Chain /\ ethBalance \in 0..MaxBalance
    /\ slippage = LegacySlippage
    /\ tryExactOutput = FALSE
    /\ swapAmount \in 1..MaxSwapAmount
    /\ Locals

\* a failure of the legacy script: main's catch rethrows, then process.exit(1)
LegacyThrow(msg, why) == Throw(msg, why)

\* main: await logBalances(signer), three times; logBalances catches its own
\* errors, so main goes on either way.  After the second one amountIn is parsed
\* and approveToken called; after the third main returns.
LegacyLogBalances ==
    /\ script = "legacy" /\ pc \in {"lg_balances1", "lg_balances2", "lg_balances3"}
    /\ pc' = CASE pc = "lg_balances1" -> "lg_wrapBalance"
               [] pc = "lg_balances2" -> "lg_checkBalance"
               [] pc = "lg_balances3" -> "done"
    /\ amountIn' = IF pc = "lg_balances2" THEN swapAmount ELSE amountIn
    /\ exitCode' = IF pc = "lg_balances3" THEN 0 ELSE exitCode
    /\ UNCHANGED <<fixedVars, tokenVars, decimalsIn, approveVars, poolVars, quoteVars,
                   swapVars, error, cause, readVars, txs, calls, joinVars, clockVars>>

\* wrapEthToWeth: ethBalance = await provider.getBalance(...);
\* if (ethBalance < ethToWrap) throw; errors are rethrown as they are
LegacyWrapBalance ==
    /\ script = "legacy" /\ pc = "lg_wrapBalance"
    /\ \/ IF ethBalance < swapAmount
          THEN LegacyThrow("Insufficient ETH balance", "InsufficientEth")
          ELSE pc' = "lg_wrapSend" /\ UNCHANGED errVars
       \/ LegacyThrow("call failed", "BalanceUnavailable")
    /\ UNCHANGED <<fixedVars, tokenVars, mainVars, approveVars, poolVars, quoteVars,
                   swapVars, readVars, txs, calls, joinVars, clockVars>>

\* wrapEthToWeth: txResponse = await wallet.sendTransaction({...depositTx, gasLimit})
LegacyWrapSend ==
    /\ script = "legacy" /\ pc = "lg_wrapSend"
    /\ \/ /\ txs' = Append(txs, WrapTx(swapAmount, LegacyWrapGasLimit))
          /\ pc' = "lg_wrapWait"
          /\ UNCHANGED errVars
       \/ LegacyThrow("send failed", "SendFailed") /\ UNCHANGED txs
    /\ UNCHANGED <<fixedVars, tokenVars, mainVars, approveVars, poolVars, quoteVars,
                   swapVars, readVars, calls, joinVars, clockVars>>

\* wrapEthToWeth: receipt = await txResponse.wait()
LegacyWrapWait ==
    /\ script = "legacy" /\ pc = "lg_wrapWait"
    /\ \/ /\ txs' = SetLastStatus(txs, "confirmed")
          /\ ethBalance' = ethBalance - txs[Len(txs)].amount
          /\ balance' = balance + txs[Len(txs)].amount
          /\ pc' = "lg_wrapRead"
          /\ UNCHANGED errVars
       \/ /\ txs' = SetLastStatus(txs, "reverted")
          /\ LegacyThrow("transaction failed", "DepositReverted")
          /\ UNCHANGED <<balance, ethBalance>>
    /\ UNCHANGED <<fixedVars, allowance, mainVars, approveVars, poolVars, quoteVars,
                   swapVars, readVars, calls, joinVars, clockVars>>

\* wrapEthToWeth: wethBalance = await wethContractView.balanceOf(...)
LegacyWrapRead ==
    /\ script = "legacy" /\ pc = "lg_wrapRead"
    /\ \/ pc' = "lg_balances2" /\ UNCHANGED errVars
       \/ LegacyThrow("call failed", "BalanceUnavailable")
    /\ UNCHANGED <<fixedVars, tokenVars, mainVars, approveVars, poolVars, quoteVars,
                   swapVars, readVars, txs, calls, joinVars, clockVars>>

\* approveToken: balance = await checkBalance(...); if (balance < amount) throw;
\* every error of approveToken leaves as 'Token approval failed'
LegacyCheckBalance ==
    /\ script = "legacy" /\ pc = "lg_checkBalance"
    /\ apAmount' = amountIn /\ apCaller' = "main" /\ apStart' = Len(txs)
    /\ \/ IF balance < amountIn
          THEN LegacyThrow("Token approval failed", "InsufficientBalance")
          ELSE pc' = "lg_allowance" /\ UNCHANGED errVars
       \/ LegacyThrow("Token approval failed", "BalanceUnavailable")
    /\ UNCHANGED <<fixedVars, tokenVars, mainVars, apAllowance, poolVars, quoteVars,
                   swapVars, readVars, txs, calls, joinVars, clockVars>>

\* approveToken: allowance = await tokenContract.allowance(...);
\* if (allowance >= amount) return; main then calls getPoolInfo
LegacyReadAllowance ==
    /\ script = "legacy" /\ pc = "lg_allowance"
    /\ \/ /\ apAllowance' = allowance
          /\ pc' = IF allowance >= apAmount THEN "lg_getPool" ELSE "lg_approveSend"
          /\ UNCHANGED errVars
       \/ LegacyThrow("Token approval failed", "AllowanceUnavailable")
          /\ UNCHANGED apAllowance
    /\ UNCHANGED <<fixedVars, tokenVars, mainVars, apAmount, apCaller, apStart,
                   poolVars, quoteVars, swapVars, readVars, txs, calls, joinVars, clockVars>>

\* approveToken: transactionResponse = await wallet.sendTransaction(approveTransaction),
\* without a gas limit of the script's own
LegacyApproveSend ==
    /\ script = "legacy" /\ pc = "lg_approveSend"
    /\ \/ /\ txs' = Append(txs, [ApproveTx(apAmount) EXCEPT !.gasLimit = 0])
          /\ pc' = "lg_approveWait"
          /\ UNCHANGED errVars
       \/ LegacyThrow("Token approval failed", "SendFailed") /\ UNCHANGED txs
    /\ UNCHANGED <<fixedVars, tokenVars, mainVars, approveVars, poolVars, quoteVars,
                   swapVars, readVars, calls, joinVars, clockVars>>

\* approveToken: receipt = await transactionResponse.wait(); main then calls
\* getPoolInfo
LegacyApproveWait ==
    /\ script = "legacy" /\ pc = "lg_approveWait"
    /\ \/ /\ txs' = SetLastStatus(txs, "confirmed")
          /\ allowance' = txs[Len(txs)].amount
          /\ pc' = "lg_getPool"
          /\ UNCHANGED errVars
       \/ /\ txs' = SetLastStatus(txs, "reverted")
          /\ LegacyThrow("Token approval failed", "ApprovalReverted")
          /\ UNCHANGED allowance
    /\ UNCHANGED <<fixedVars, balance, ethBalance, mainVars, approveVars, poolVars,
                   quoteVars, swapVars, readVars, calls, joinVars, clockVars>>

\* getPoolInfo: if (poolAddress === ethers.AddressZero) throw
LegacyNoPool(address) == address = EthersAddressZero

\* getPoolInfo: poolAddress = await factoryContract.getPool(WETH, USDC, 3000); the
\* guard; then the pool contract is built on that address
LegacyGetPool ==
    /\ script = "legacy" /\ pc = "lg_getPool"
    /\ LET key == <<TokenIn, TokenOut, LegacyFee>> IN
       \/ /\ probes' = Append(probes, Probe("getPoolInfo", key, TRUE))
          /\ poolAddress' = factory[key]
          /\ IF LegacyNoPool(factory[key])
             THEN LegacyThrow("Pool does not exist for this token pair with fee 3000",
                              "NoPoolFound")
             ELSE pc' = "lg_poolReads" /\ UNCHANGED errVars
       \/ /\ probes' = Append(probes, Probe("getPoolInfo", key, FALSE))
          /\ LegacyThrow("call failed", "FactoryUnavailable")
          /\ UNCHANGED poolAddress
    /\ UNCHANGED <<fixedVars, tokenVars, mainVars, approveVars, pair, feeIdx, usedFee,
                   fee, quoteVars, swapVars, quotes, poolReads, txs, calls, joinVars, clockVars>>

\* getPoolInfo: Promise.all([token0(), token1(), fee()]) on the pool contract; an
\* address without code answers no data and the decoding throws
LegacyPoolReads ==
    /\ script = "legacy" /\ pc = "lg_poolReads"
    /\ poolReads' = Append(poolReads, poolAddress)
    /\ \/ /\ HasCode(poolAddress)
          /\ fee' = PoolFee(poolAddress)
          /\ pc' = "lg_quote"
          /\ UNCHANGED errVars
       \/ /\ LegacyThrow("call failed",
                         IF HasCode(poolAddress) THEN "PoolUnavailable" ELSE "NoCode")
          /\ UNCHANGED fee
    /\ UNCHANGED <<fixedVars, tokenVars, mainVars, approveVars, pair, feeIdx,
                   poolAddress, usedFee, quoteVars, swapVars, probes, quotes, txs,
                   calls, joinVars, clockVars>>

\* quoteAndLogSwap: quotedAmountOut = await quoteExactInputSingle.staticCall(...)
LegacyQuote ==
    /\ script = "legacy" /\ pc = "lg_quote"
    /\ quotes' = Append(quotes, QuoteCall(fee, amountIn))
    /\ \/ \E q \in Quotes :
            /\ quotedAmountOut' = q
            /\ pc' = "lg_prepare"
            /\ UNCHANGED errVars
       \/ /\ LegacyThrow("call failed", "QuoteFailed")
          /\ UNCHANGED quotedAmountOut
    /\ UNCHANGED <<fixedVars, tokenVars, mainVars, approveVars, poolVars,
                   amountOutMinimum, swapParams, swapVars, probes, poolReads, txs,
                   calls, joinVars, clockVars>>

\* prepareSwapParams: amountOutMinimum = amountOut * BigInt(Math.floor(1000 * (1 -
\* slippageTolerance))) / BigInt(1000); fee: await poolContract.fee()
LegacyPrepare ==
    /\ script = "legacy" /\ pc = "lg_prepare"
    /\ poolReads' = Append(poolReads, poolAddress)
    /\ \/ /\ amountOutMinimum' = ScaledMinimum(quotedAmountOut, slippage)
          /\ swapParams' = SwapParams(PoolFee(poolAddress), amountIn, amountOutMinimum')
          /\ pc' = "lg_send"
          /\ UNCHANGED errVars
       \/ /\ LegacyThrow("call failed", "PoolUnavailable")
          /\ UNCHANGED <<amountOutMinimum, swapParams>>
    /\ UNCHANGED <<fixedVars, tokenVars, mainVars, approveVars, poolVars,
                   quotedAmountOut, swapVars, probes, quotes, txs, calls, joinVars, clockVars>>

\* executeSwap: transactionResponse = await signer.sendTransaction({..., gasLimit})
LegacySwapSend ==
    /\ script = "legacy" /\ pc = "lg_send"
    /\ \/ /\ txs' = Append(txs, SwapTx(swapParams, LegacySwapGasLimit))
          /\ pc' = "lg_wait"
          /\ UNCHANGED errVars
       \/ LegacyThrow("Swap transaction failed", "SendFailed") /\ UNCHANGED txs
    /\ UNCHANGED <<fixedVars, tokenVars, mainVars, approveVars, poolVars, quoteVars,
                   swapVars, readVars, calls, joinVars, clockVars>>

\* executeSwap: receipt = await transactionResponse.wait()
LegacySwapWait ==
    /\ script = "legacy" /\ pc = "lg_wait"
    /\ \/ /\ balance >= swapParams.amountIn /\ allowance >= swapParams.amountIn
          /\ balance' = balance - swapParams.amountIn
          /\ allowance' = allowance - swapParams.amountIn
          /\ txs' = SetLastStatus(txs, "confirmed")
          /\ swapConfirmed' = TRUE
          /\ pc' = "lg_balances3"
          /\ UNCHANGED errVars
       \/ /\ txs' = SetLastStatus(txs, "reverted")
          /\ LegacyThrow("Swap transaction failed", "SwapReverted")
          /\ UNCHANGED <<balance, allowance, swapConfirmed>>
    /\ UNCHANGED <<fixedVars, ethBalance, mainVars, approveVars, poolVars, quoteVars,
                   gasEstimate, outParams, readVars, calls, joinVars, clockVars>>

NextLegacy ==
    \/ LegacyLogBalances
    \/ LegacyWrapBalance \/ LegacyWrapSend \/ LegacyWrapWait \/ LegacyWrapRead
    \/ LegacyCheckBalance \/ LegacyReadAllowance \/ LegacyApproveSend
    \/ LegacyApproveWait
    \/ LegacyGetPool \/ LegacyPoolReads
    \/ LegacyQuote \/ LegacyPrepare \/ LegacySwapSend \/ LegacySwapWait

SpecLegacy == InitLegacy /\ [][NextLegacy]_vars

\* the factory answered the zero address for (WETH, USDC, 3000)
LegacyZeroAnswer ==
    /\ Len(probes) >= 1 /\ probes[1].ok /\ probes[1].address = ZeroAddress

\* C6 as stated: in the second script of old_scripts/index2.js, when the factory
\* returns the zero address for (WETH, USDC, 3000), getPoolInfo throws and main
\* never reaches the pool reads, the quote or the swap submission: the zero
\* address is never used as a pool.
C6_Original ==
    LegacyZeroAnswer =>
        /\ pc = "failed" /\ cause = "NoPoolFound"
        /\ poolReads = <<>> /\ quotes = <<>>
        /\ TxsOf("exactInputSingle") = <<>>

\* C6 on the code: the guard compares with ethers.AddressZero, which is undefined,
\* so after a zero answer the script goes on to read token0, token1 and fee at
\* the zero address; that read fails, and no quote and no swap follow.
C6_ZeroAddressRead ==
    (LegacyZeroAnswer /\ pc # "lg_poolReads") =>
        /\ pc = "failed" /\ cause = "NoCode"
        /\ poolReads = <<ZeroAddress>> /\ quotes = <<>>
        /\ TxsOf("exactInputSingle") = <<>>

\* C6 witness: the factory answered the zero address and the pool reads were
\* issued to it.
C6_Witness ==
    /\ LegacyZeroAnswer
    /\ Len(poolReads) >= 1 /\ poolReads[1] = ZeroAddress

----------------------------------------------------------------------------
(* Errors of approveToken, as its caller sees them *)

\* the failures of the approval transaction itself
ApprovalTxCauses == {"SendFailed", "ApprovalReverted"}

\* C11 as stated: the error approveToken fails with when the balance is below the
\* amount differs from the error it fails with when the approval transaction
\* fails, so the caller can tell InsufficientBalance from ApprovalFailed.
C11_Original ==
    \A i, j \in 1..Len(calls) :
        (calls[i].cause = "InsufficientBalance" /\ calls[j].cause \in ApprovalTxCauses)
        => calls[i].error # calls[j].error

\* C11 on the code: approveToken throws the balance error inside its own try, and
\* its catch replaces every error by 'Token approval failed'.
C11_OneErrorForAll ==
    \A i \in 1..Len(calls) : ~calls[i].ok => calls[i].error = "Token approval failed"

\* C11 witness: one invocation failed on the balance, another on its reverted
\* approval transaction.
C11_Witness ==
    /\ Len(calls) = 2
    /\ calls[1].cause = "InsufficientBalance" /\ calls[1].sent = 0
    /\ calls[2].cause = "ApprovalReverted" /\ calls[2].sent = 1

----------------------------------------------------------------------------
(* Gas limits and repetition of the exact-input swap of src/index.js *)

\* the exactInputSingle transactions handed to sendTransaction so far
InputSwaps == TxsOf("exactInputSingle")

\* gas estimation answered (gasEstimate holds the answer)
EstimationSucceeded == gasEstimate # -1

\* C12 as stated: executeSwap submits the swap with the fixed 1,000,000 gas limit
\* only if gas estimation failed; when estimation succeeds, the only swap
\* transaction submitted carries gasLimit = floor(estimate * 130 / 100).
C12_Original ==
    \A i \in 1..Len(InputSwaps) :
        /\ InputSwaps[i].gasLimit = FixedGasLimit => ~EstimationSucceeded
        /\ EstimationSucceeded =>
              /\ InputSwaps[i].gasLimit = GasWithBuffer(gasEstimate)
              /\ Len(InputSwaps) = 1

\* C12 on the code: the inner try covers sendTransaction and wait as well, so
\* after a successful estimation a fixed-gas swap is submitted exactly when the
\* send failed or the estimated-gas swap reverted; the estimated-gas swap, when
\* there is one, comes first and carries floor(estimate * 130 / 100).
C12_FixedGasAfterAnyFailure ==
    \A i \in 1..Len(InputSwaps) :
        /\ InputSwaps[i].gasLimit \in {FixedGasLimit, GasWithBuffer(gasEstimate)}
        /\ InputSwaps[i].gasLimit # FixedGasLimit => (i = 1 /\ EstimationSucceeded)
        /\ (InputSwaps[i].gasLimit = FixedGasLimit /\ i = 2) =>
              /\ InputSwaps[1].gasLimit = GasWithBuffer(gasEstimate)
              /\ InputSwaps[1].status = "reverted"

\* C12 witness: estimation succeeded, the estimated-gas swap reverted, and the
\* swap was submitted again with the fixed gas limit.
C12_Witness ==
    /\ EstimationSucceeded
    /\ Len(InputSwaps) = 2
    /\ InputSwaps[1].gasLimit = GasWithBuffer(gasEstimate)
    /\ InputSwaps[1].status = "reverted"
    /\ InputSwaps[2].gasLimit = FixedGasLimit

\* C13 as stated: within one run of src/index.js the exactInputSingle transaction
\* is submitted at most once.
C13_Original == Len(InputSwaps) <= 1

\* C13 on the code: the exactInputSingle transaction is submitted at most twice,
\* the second time with the same parameters and the fixed gas limit, and only
\* after the first one reverted.
C13_AtMostTwice ==
    /\ Len(InputSwaps) <= 2
    /\ Len(InputSwaps) = 2 =>
          /\ InputSwaps[1].status = "reverted"
          /\ InputSwaps[2].amount = InputSwaps[1].amount
          /\ InputSwaps[2].bound = InputSwaps[1].bound
          /\ InputSwaps[2].fee = InputSwaps[1].fee

\* C13 witness: the run ended after two exactInputSingle transactions, both
\* reverted.
C13_Witness ==
    /\ pc \in {"done", "failed"}
    /\ Len(InputSwaps) = 2
    /\ InputSwaps[1].status = "reverted" /\ InputSwaps[2].status = "reverted"

----------------------------------------------------------------------------
(* The exact-output fallback of src/index.js *)

\* the exactOutputSingle transactions handed to sendTransaction so far
OutputSwaps == TxsOf("exactOutputSingle")

\* the run is inside tryExactOutputSwap or the balance log that follows it
InFallback ==
    \/ pc \in {"eo_quote", "eo_send", "eo_wait", "eo_finalBalances"}
    \/ apCaller = "exactOutput"

\* C14: a run of src/index.js submits at most one exactOutputSingle transaction;
\* the fallback is entered only when TRY_EXACT_OUTPUT is enabled; no transaction
\* follows the exactOutputSingle one, and when it fails the run has ended in
\* failure with exit code 1.
C14_FallbackSingleShot ==
    /\ Len(OutputSwaps) <= 1
    /\ (InFallback \/ Len(OutputSwaps) >= 1) => tryExactOutput
    /\ \A i \in 1..Len(txs) : txs[i].kind = "exactOutputSingle" => i = Len(txs)
    /\ (Len(OutputSwaps) = 1 /\ OutputSwaps[1].status = "reverted") =>
          (pc = "failed" /\ exitCode = 1)

\* C14 witness: the fallback's exactOutputSingle transaction was submitted after a
\* reverted exact-input swap, reverted too, and the run ended in failure.
C14_Witness ==
    /\ tryExactOutput
    /\ Len(InputSwaps) >= 1 /\ InputSwaps[1].status = "reverted"
    /\ Len(OutputSwaps) = 1 /\ OutputSwaps[1].status = "reverted"
    /\ pc = "failed"

----------------------------------------------------------------------------
(* Failures of src/index.js before the swap *)

\* the run failed before main had a quote: in fetchTokenInfo, the initial
\* logBalances, approveToken, getPoolInfo or getQuote
FailedBeforeSwap == pc = "failed" /\ swapParams = NoParams

\* what getPoolInfo and getQuote have asked the chain so far
LookupsMade == Len(probes) + Len(poolReads)

\* C15: in src/index.js a failure of fetchTokenInfo, the initial logBalances,
\* approveToken, getPoolInfo or getQuote ends the run: the steps after the failed
\* one have not run, no exact-input or exact-output swap is submitted, the exit
\* code is 1, and no step is taken from the failed state.
C15_EarlyFailureTerminal ==
    /\ [](FailedBeforeSwap =>
            /\ exitCode = 1
            /\ InputSwaps = <<>> /\ OutputSwaps = <<>>
            /\ error \in {"Failed to retrieve token info", "Failed to check balances"}
                  => (txs = <<>> /\ LookupsMade = 0 /\ quotes = <<>>)
            /\ error = "Token approval failed" => (LookupsMade = 0 /\ quotes = <<>>)
            /\ error # "Failed to get quote for swap" => quotes = <<>>)
    /\ [][pc # "failed"]_vars

\* C15 witness: approval and pool lookup succeeded, getQuote failed, and the run
\* ended with the approval as its only transaction.
C15_Witness ==
    /\ FailedBeforeSwap /\ error = "Failed to get quote for swap"
    /\ Len(txs) = 1 /\ txs[1].kind = "approve" /\ txs[1].status = "confirmed"
    /\ Len(quotes) = 1

----------------------------------------------------------------------------
(* Order of the steps of src/index.js before a swap *)

\* main's approveToken returned successfully for amountIn: its approval of
\* amountIn was confirmed, or it sent nothing because the allowance it read
\* already covered amountIn
MainApproved ==
    /\ calls # <<>>
    /\ calls[1].ok /\ calls[1].amount = amountIn
    /\ IF calls[1].sent = 0
       THEN calls[1].allowance >= amountIn
       ELSE /\ calls[1].sent = 1 /\ calls[1].allowance < amountIn
            /\ txs[1].kind = "approve" /\ txs[1].status = "confirmed"
            /\ txs[1].amount = amountIn

\* getPoolInfo found a pool: a non-zero address, read successfully
PoolFound ==
    /\ poolAddress # Null /\ poolAddress # ZeroAddress
    /\ Len(poolReads) >= 1 /\ poolReads[1] = poolAddress
    /\ fee = PoolFee(poolAddress)

\* the quoter answered main's request and the swap parameters carry its bound
QuoteReturned ==
    /\ Len(quotes) >= 1 /\ quotes[1] = QuoteCall(fee, amountIn)
    /\ swapParams = SwapParams(fee, amountIn, MinimumOut(quotedAmountOut, slippage))

----------------------------------------------------------------------------
(* Wrapping before approval: src/index.js and the first script of              *)
(* old_scripts/index2.js side by side                                           *)

InitScripts == Init \/ InitOld

NextScripts == Next \/ NextOld

SpecScripts == InitScripts /\ [][NextScripts]_vars

\* main has called approveToken
ApprovalReached == apCaller # ""

\* the first transaction of the run is a confirmed deposit of the swap amount
WrappedFirst ==
    /\ Len(txs) >= 1
    /\ txs[1].kind = "deposit" /\ txs[1].status = "confirmed"
    /\ txs[1].amount = amountIn

OldWrappedThenApproved ==
    /\ script = "old" /\ WrappedFirst
    /\ Len(txs) >= 2 /\ txs[2].kind = "approve"

----------------------------------------------------------------------------
(* Transactions in flight *)

\* the positions in txs of the transactions neither confirmed nor failed
Unconfirmed == {i \in 1..Len(txs) : txs[i].status = "pending"}

\* C18: at every point of a run at most one submitted transaction is unconfirmed,
\* and it is the last one submitted: every wrap, approval, exact-input and
\* exact-output transaction was confirmed or failed before the next was sent.
C18_OneInFlight ==
    /\ Cardinality(Unconfirmed) <= 1
    /\ \A i \in Unconfirmed : i = Len(txs)

\* C18 witness: src/index.js has its third transaction in flight, after a
\* confirmed approval and a reverted swap.
C18_Witness ==
    /\ script = "index" /\ Len(txs) = 3
    /\ txs[1].kind = "approve" /\ txs[1].status = "confirmed"
    /\ txs[2].kind = "exactInputSingle" /\ txs[2].status = "reverted"
    /\ txs[3].status = "pending"

----------------------------------------------------------------------------
(* The joined reads of src/index.js: const [...] = await Promise.all([...]) in  *)
(* fetchTokenInfo, logBalances and getPoolInfo, with the reads completing one   *)
(* by one in any order.  Promise.all fulfils when every read has fulfilled,     *)
(* with the values in the order the reads were given, and rejects as soon as    *)
(* one read rejects.                                                            *)

JoinedFunctions == {"fetchTokenInfo", "logBalances", "getPoolInfo"}

\* the reads each function hands to Promise.all, in the order it gives them
JoinedReads(f) ==
    CASE f = "fetchTokenInfo" -> <<"symbol", "name", "decimals">>
      [] f = "logBalances" -> <<"tokenInBalance", "tokenOutBalance", "ethBalance">>
      [] f = "getPoolInfo" -> <<"token0", "token1", "fee", "liquidity", "slot0">>

\* what the chain answers to a read (the output token's balance and the pool's
\* liquidity are not part of the model's chain: a fixed answer each)
ChainValue(read) ==
    CASE read = "symbol" -> "SYM"
      [] read = "name" -> "Token"
      [] read = "decimals" -> decimalsIn
      [] read = "tokenInBalance" -> balance
      [] read = "tokenOutBalance" -> 0
      [] read = "ethBalance" -> ethBalance
      [] read = "token0" -> TokenIn
      [] read = "token1" -> TokenOut
      [] read = "fee" -> PoolFee(poolAddress)
      [] read = "liquidity" -> 1
      [] read = "slot0" -> "slot0"

InitJoin ==
    /\ script = "join" /\ pc = "jn_call"
    /\ factory \in {f \in FactoryStates : \A k \in Keys : f[k] = ZeroAddress}
    /\ balance \in 0..MaxBalance /\ allowance = 0
    /\ ethBalance \in 0..MaxSwapAmount
    /\ slippage = SLIPPAGE_TOLERANCE
    /\ tryExactOutput = TRY_EXACT_OUTPUT
    /\ swapAmount = 1
    /\ decimalsIn \in 0..MaxDecimals /\ amountIn = 0
    /\ apAmount = 0 /\ apCaller = "" /\ apAllowance = -1 /\ apStart = 0
    /\ pair = <<TokenIn, TokenOut>>
    /\ feeIdx = 1 /\ poolAddress \in {a \in PoolAddresses : a <= MaxPools}
    /\ usedFee = Null /\ fee = 0
    /\ quotedAmountOut = 0 /\ amountOutMinimum = 0 /\ swapParams = NoParams
    /\ gasEstimate = -1 /\ swapConfirmed = FALSE /\ outParams = NoOutParams
    /\ error = "" /\ cause = "" /\ exitCode = -1
    /\ txs = <<>> /\ probes = <<>> /\ quotes = <<>> /\ poolReads = <<>>
    /\ calls = <<>>
    /\ reads = <<>> /\ settled = <<>> /\ joinResult = NoJoin
    /\ now = 0 /\ deadlines = <<>>

\* the array filled in the order the reads completed
JoinedValuesAsSettled(rs, order) ==
    [i \in 1..Len(rs) |-> [read |-> rs[order[i]].name,
                           value |-> ChainValue(rs[order[i]].name)]]

\* the array Promise.all fulfils with: the value of each read at the position
\* the read was given
JoinedValues(rs, order) ==
    [i \in 1..Len(rs) |-> [read |-> rs[i].name, value |-> ChainValue(rs[i].name)]]

\* one of the three functions issues its reads together and awaits Promise.all
JoinCall ==
    /\ script = "join" /\ pc = "jn_call"
    /\ \E f \in JoinedFunctions :
         reads' = [i \in 1..Len(JoinedReads(f)) |->
                     [name |-> JoinedReads(f)[i], state |-> "pending"]]
    /\ pc' = "jn_await"
    /\ UNCHANGED <<fixedVars, tokenVars, mainVars, approveVars, poolVars, quoteVars,
                   swapVars, errVars, readVars, txs, calls, settled, joinResult,
                   clockVars>>

\* one outstanding read completes, fulfilled or rejected.  The await ends with
\* the first rejection (the function throws) or with the last fulfilment (the
\* function goes on with the values); a read completing after the rejection
\* changes nothing.
ReadCompletes ==
    /\ script = "join" /\ pc \in {"jn_await", "jn_threw"}
    /\ \E i \in 1..Len(reads) : \E ok \in BOOLEAN :
         /\ reads[i].state = "pending"
         /\ reads' = [reads EXCEPT ![i].state = IF ok THEN "fulfilled" ELSE "rejected"]
         /\ settled' = Append(settled, i)
         /\ IF pc = "jn_threw"
            THEN UNCHANGED <<pc, joinResult>>
            ELSE IF ~ok
            THEN pc' = "jn_threw" /\ joinResult' = [state |-> "rejected", values |-> <<>>]
            ELSE IF \A j \in 1..Len(reads) : reads'[j].state = "fulfilled"
            THEN /\ pc' = "jn_returned"
                 /\ joinResult' = [state |-> "fulfilled",
                                   values |-> JoinedValues(reads', settled')]
            ELSE UNCHANGED <<pc, joinResult>>
    /\ UNCHANGED <<fixedVars, tokenVars, mainVars, approveVars, poolVars, quoteVars,
                   swapVars, errVars, readVars, txs, calls, clockVars>>

NextJoin == JoinCall \/ ReadCompletes

SpecJoin == InitJoin /\ [][NextJoin]_vars

----------------------------------------------------------------------------
(* The deadline of the swap parameters of src/index.js:                        *)
(* deadline: Math.floor(Date.now() / 1000 + 60 * 10), in main and in            *)
(* tryExactOutputSwap, with the clock running between and after the two.        *)

DeadlineSeconds == 600
MillisPerSecond == 1000

\* how far the clock moves in one step, in milliseconds
TickSteps == {250, 1000}

\* the deadline taken as milliseconds plus the margin
DeadlineInMillis(ms) == ms + DeadlineSeconds

\* Math.floor(Date.now() / 1000 + 60 * 10)
Deadline(ms) == (ms + DeadlineSeconds * MillisPerSecond) \div MillisPerSecond

InitDeadline ==
    /\ script = "deadline" /\ pc = "dl_main"
    /\ factory \in {f \in FactoryStates : \A k \in Keys : f[k] = ZeroAddress}
    /\ balance = 0 /\ allowance = 0 /\ ethBalance = 0
    /\ slippage = SLIPPAGE_TOLERANCE
    /\ tryExactOutput = TRY_EXACT_OUTPUT
    /\ swapAmount = 1
    /\ ScriptLocals
    /\ now \in {t \in 0..MaxNow : t % 250 \in {0, 249}}

\* time passes
Tick ==
    /\ script = "deadline"
    /\ \E d \in TickSteps : now + d <= MaxNow /\ now' = now + d
    /\ UNCHANGED <<fixedVars, pc, tokenVars, mainVars, approveVars, poolVars,
                   quoteVars, swapVars, errVars, readVars, txs, calls, joinVars,
                   deadlines>>

\* a parameter set is built: its deadline, kept with the time of building
Built(kind) ==
    deadlines' = Append(deadlines, [kind |-> kind, builtAt |-> now,
                                    deadline |-> Deadline(now)])

\* main: const swapParams = { ..., deadline, ... } for exactInputSingle
BuildInputDeadline ==
    /\ script = "deadline" /\ pc = "dl_main"
    /\ Built("exactInputSingle")
    /\ pc' = "dl_fallback"
    /\ UNCHANGED <<fixedVars, tokenVars, mainVars, approveVars, poolVars, quoteVars,
                   swapVars, errVars, readVars, txs, calls, joinVars, now>>

\* tryExactOutputSwap: const swapParams = { ..., deadline, ... } for
\* exactOutputSingle
BuildOutputDeadline ==
    /\ script = "deadline" /\ pc = "dl_fallback"
    /\ Built("exactOutputSingle")
    /\ pc' = "dl_done"
    /\ UNCHANGED <<fixedVars, tokenVars, mainVars, approveVars, poolVars, quoteVars,
                   swapVars, errVars, readVars, txs, calls, joinVars, now>>

NextDeadline == Tick \/ BuildInputDeadline \/ BuildOutputDeadline

SpecDeadline == InitDeadline /\ [][NextDeadline]_vars

\* the whole second a time in milliseconds falls in
SecondOf(ms) == ms \div MillisPerSecond

\* C20: every swap parameter set, exact-input and exact-output, carries as its
\* deadline the second in which it was built plus 600 seconds, so the deadline
\* is never earlier than the time of building (it lies more than 599 and at most
\* 600 seconds after it).
C20_DeadlineTenMinutes ==
    \A i \in 1..Len(deadlines) :
        LET d == deadlines[i] IN
        /\ d.deadline = SecondOf(d.builtAt) + DeadlineSeconds
        /\ d.deadline * MillisPerSecond >= d.builtAt
        /\ d.deadline * MillisPerSecond <= d.builtAt + DeadlineSeconds * MillisPerSecond
        /\ d.deadline * MillisPerSecond
              > d.builtAt + (DeadlineSeconds - 1) * MillisPerSecond

\* C20 witness: both parameter sets were built, the exact-output one later and
\* not on a whole second.
C20_Witness ==
    /\ Len(deadlines) = 2
    /\ deadlines[1].kind = "exactInputSingle" /\ deadlines[2].kind = "exactOutputSingle"
    /\ deadlines[2].builtAt > deadlines[1].builtAt
    /\ deadlines[2].builtAt % MillisPerSecond # 0
    /\ deadlines[2].deadline > deadlines[1].deadline

----------------------------------------------------------------------------
(* tryExactOutputSwap of src/index.js as a function of the tolerance, the      *)
(* quoted input and the wallet: it starts where main's catch (swapError) calls *)
(* it, with the desired output already parsed.                                 *)

\* the wallet balances and allowances tryExactOutputSwap may meet
FallbackHoldings == {0, 1, 40, 80}

InitFallback ==
    /\ script = "fallback" /\ pc = "eo_quote"
    /\ factory \in {f \in FactoryStates : \A k \in Keys : f[k] = ZeroAddress}
    /\ balance \in FallbackHoldings /\ allowance \in FallbackHoldings
    /\ ethBalance = 0
    /\ slippage \in SlippageSamples
    /\ tryExactOutput = TRY_EXACT_OUTPUT
    /\ swapAmount = 1
    /\ decimalsIn = 0 /\ amountIn = 1
    /\ apAmount = 0 /\ apCaller = "" /\ apAllowance = -1 /\ apStart = 0
    /\ pair = <<TokenIn, TokenOut>>
    /\ feeIdx = 1 /\ poolAddress = PoolAt(ForwardKey(1)) /\ usedFee = TierAt(1)
    /\ fee = TierAt(1)
    /\ quotedAmountOut = 10 /\ amountOutMinimum = MinimumOut(10, slippage)
    /\ swapParams = SwapParams(fee, amountIn, amountOutMinimum)
    /\ gasEstimate = -1 /\ swapConfirmed = FALSE
    /\ outParams = [NoOutParams EXCEPT !.amountOut = DesiredOutput(10)]
    /\ error = "" /\ cause = "" /\ exitCode = -1
    /\ txs = <<>> /\ probes = <<>> /\ quotes = <<>> /\ poolReads = <<>>
    /\ calls = <<>>
    /\ reads = <<>> /\ settled = <<>> /\ joinResult = NoJoin
    /\ now = 0 /\ deadlines = <<>>

NextFallback ==
    \/ ExactOutputQuote
    \/ CheckBalance \/ ReadAllowance \/ ApproveSend \/ ApproveWait \/ ApproveVerify
    \/ ExactOutputAfterApprove \/ ExactOutputSend \/ ExactOutputWait
    \/ ExactOutputFinalBalances

SpecFallback == InitFallback /\ [][NextFallback]_vars

\* C21: every exactOutputSingle transaction carries as amountInMaximum
\* floor(quotedIn * floor((1 + s) * 1000) / 1000), which is at least the quoted
\* input; approveToken was called for exactly that amount and returned
\* successfully before the transaction was submitted (with the allowance it read
\* covering the amount, or with its one approval of that amount confirmed); and
\* when approveToken threw, no exactOutputSingle transaction is submitted.
C21_MaximumInputApproved ==
    /\ \A i \in 1..Len(txs) :
          txs[i].kind = "exactOutputSingle" =>
            /\ txs[i].bound
                 = (outParams.quotedIn * (((SlippageDen + slippage) * 1000) \div SlippageDen))
                     \div 1000
            /\ txs[i].bound >= outParams.quotedIn
            /\ calls # <<>>
            /\ LET c == calls[Len(calls)] IN
               /\ c.ok /\ c.amount = txs[i].bound
               /\ IF c.sent = 0
                  THEN c.allowance >= txs[i].bound /\ i = 1
                  ELSE /\ c.sent = 1 /\ i = 2
                       /\ txs[1].kind = "approve" /\ txs[1].status = "confirmed"
                       /\ txs[1].amount = txs[i].bound
    /\ (calls # <<>> /\ ~calls[Len(calls)].ok) => (OutputSwaps = <<>> /\ pc = "failed")

\* C21 witness: the quoted input was widened by the tolerance, the approval of
\* the widened amount was confirmed, and the exactOutputSingle was submitted
\* with it.
C21_Witness ==
    /\ Len(txs) = 2 /\ txs[1].kind = "approve" /\ txs[1].status = "confirmed"
    /\ txs[2].kind = "exactOutputSingle"
    /\ outParams.quotedIn = 40 /\ txs[2].bound = 42 /\ txs[1].amount = 42

----------------------------------------------------------------------------
(* The diagnostics of executeSwap's outer catch in the run of src/index.js *)

\* the steps of the diagnostic path
DiagnosticSteps == {"dg_getPool", "dg_liquidity", "dg_quote"}

\* where main stands once it has caught executeSwap's 'Swap transaction failed':
\* in the fallback, or failed
CaughtByMain == {"eo_quote", "failed"}

\* the diagnostics asked the factory, whatever it answered
DiagnosticProbes == SelectSeq(probes, LAMBDA p : p.by = "diagnostics")

\* the diagnostics run only after the swap failed, with no transaction confirmed
\* or pending
DiagnosticsAfterFailure ==
    pc \in DiagnosticSteps =>
        /\ ~swapConfirmed /\ error = "" /\ cause \in {"SendFailed", "SwapReverted"}
        /\ \A i \in 1..Len(txs) : txs[i].status # "pending"
        /\ \A i \in 1..Len(txs) :
              txs[i].kind = "exactInputSingle" => txs[i].status = "reverted"

\* a step taken from the diagnostic path: no transaction, no funds moved, and
\* either the next diagnostic step or main's catch
DiagnosticStepThrows ==
    pc \in DiagnosticSteps =>
        /\ txs' = txs /\ balance' = balance /\ allowance' = allowance
        /\ swapConfirmed' = swapConfirmed
        /\ pc' \in (DiagnosticSteps \cup CaughtByMain) \ {pc, "dg_getPool"}
        /\ pc' = "failed" => (error' # "" /\ exitCode' = 1)
        /\ pc' = "dg_quote" => pc = "dg_liquidity"

\* C22: the diagnostic path of a failed executeSwap (factory lookup, liquidity
\* read, re-quote at floor(amountIn * 10 / 100)) runs only after the swap failed
\* with nothing confirmed or pending, submits no transaction and moves no funds,
\* and from each of its steps executeSwap either takes the next step or throws
\* to main's catch, whether the step succeeded or failed: it never returns to
\* main as if the swap had succeeded.
C22_DiagnosticsKeepFailure ==
    []DiagnosticsAfterFailure /\ [][DiagnosticStepThrows]_vars

\* C22 witness: the swap reverted, the diagnostics ran to the re-quote for a
\* tenth of the amount (rounded down), and main caught the failure with no
\* further transaction.
C22_Witness ==
    /\ pc \in CaughtByMain
    /\ Len(DiagnosticProbes) = 1 /\ DiagnosticProbes[1].ok
    /\ Len(quotes) = 2
    /\ quotes[2] = QuoteCall(swapParams.fee, (swapParams.amountIn * 10) \div 100)
    /\ txs # <<>> /\ txs[Len(txs)].kind = "exactInputSingle"
    /\ txs[Len(txs)].status = "reverted"

----------------------------------------------------------------------------
(* The fallback and a confirmed swap in the run of src/index.js *)

\* the positions in txs of the confirmed transactions of one kind
ConfirmedAt(kind) ==
    {i \in 1..Len(txs) : txs[i].kind = kind /\ txs[i].status = "confirmed"}

\* C23 as stated: the exact-output fallback is attempted only if no
\* exactInputSingle transaction of the run was confirmed, so a run never has an
\* exactInputSingle and an exactOutputSingle transaction both confirmed.
C23_Original ==
    /\ InFallback => ConfirmedAt("exactInputSingle") = {}
    /\ ~(ConfirmedAt("exactInputSingle") # {} /\ ConfirmedAt("exactOutputSingle") # {})

\* C23, what the code does: at most one exactInputSingle is confirmed, and the
\* fallback runs after a confirmed one exactly when the balance read that
\* follows it failed: the confirmed swap is then the last exactInputSingle, and
\* every transaction after it belongs to the fallback.
C23_FallbackAfterFailedBalanceRead ==
    /\ Cardinality(ConfirmedAt("exactInputSingle")) <= 1
    /\ (ConfirmedAt("exactInputSingle") # {}) = swapConfirmed
    /\ \A i \in ConfirmedAt("exactInputSingle") :
          \A j \in (i + 1)..Len(txs) :
              /\ txs[j].kind \in {"approve", "exactOutputSingle"}
              /\ tryExactOutput
    /\ pc = "finalBalances" => swapConfirmed

\* C23 witness: the exactInputSingle was confirmed, the balance read after it
\* failed, and the exactOutputSingle of the fallback was confirmed as well.
C23_Witness ==
    /\ ConfirmedAt("exactInputSingle") # {}
    /\ ConfirmedAt("exactOutputSingle") # {}
    /\ pc = "done"

----------------------------------------------------------------------------
(* A pair without a pool in the run of src/index.js *)

\* the run ended because getPoolInfo found no pool under any key of the pair
EndedWithoutPool == pc = "failed" /\ cause = "NoPoolFound"

\* C24 as stated: when the pool lookup fails because no pool exists for the pair,
\* the run has submitted no transaction at all by the time it ends.
C24_Original == EndedWithoutPool => txs = <<>>

\* C24, what the code does: approveToken runs before getPoolInfo, so a run that
\* ends for want of a pool has asked the factory under all six keys, has
\* submitted no swap, and has submitted nothing or the one approval of amountIn,
\* confirmed, depending on the allowance approveToken read.
C24_ApprovalBeforeLookup ==
    EndedWithoutPool =>
        /\ Len(PoolProbes) = Len(ProbeOrder)
        /\ \A k \in Keys : factory[k] = ZeroAddress
        /\ exitCode = 1
        /\ calls # <<>> /\ calls[1].ok
        /\ IF calls[1].allowance >= amountIn
           THEN txs = <<>>
           ELSE txs = <<[ApproveTx(amountIn) EXCEPT !.status = "confirmed"]>>

\* C24 witness: no pool exists for the pair, and the run ended with its approval
\* transaction confirmed.
C24_Witness ==
    /\ EndedWithoutPool
    /\ Len(txs) = 1 /\ txs[1].kind = "approve" /\ txs[1].status = "confirmed"
    /\ allowance = amountIn

----------------------------------------------------------------------------
(* The slippage bound against the quote (src/index.js main) *)

\* C25 as stated: for every quote >= 0 and every tolerance in (0,1), the
\* amountOutMinimum of the parameters main builds does not exceed the quote.
C25_Original ==
    pc = "built" => swapParams.amountOutMinimum <= quotedAmountOut

\* C25, amended: for every quote >= 1 and every tolerance in (0,1), the
\* amountOutMinimum of the parameters main builds is at least 1 and does not
\* exceed the quote; for a quote of 0 the zero guard makes it 1, above the quote.
C25_MinimumWithinQuote ==
    pc = "built" =>
        /\ swapParams.amountOutMinimum = amountOutMinimum
        /\ quotedAmountOut >= 1 =>
              (1 <= amountOutMinimum /\ amountOutMinimum <= quotedAmountOut)
        /\ quotedAmountOut = 0 => amountOutMinimum = 1

\* C25 witness: parameters built for a quote of 1, whose scaled minimum of zero
\* was replaced by 1, the quote itself.
C25_Witness ==
    /\ script = "slippage" /\ pc = "built"
    /\ quotedAmountOut = 1 /\ swapParams.amountOutMinimum = 1
    /\ (quotedAmountOut * FloorOneMinus(slippage)) \div 1000 = 0

----------------------------------------------------------------------------
(* The swap against the quote in the run of src/index.js *)

\* C26: every exactInputSingle transaction main submits is built from parameters
\* whose tokenIn, tokenOut, fee and amountIn are those of the one
\* quoteExactInputSingle request main made, whose answer gave the transaction's
\* amountOutMinimum; and that fee is the one getPoolInfo returned, read from the
\* pool it found.
C26_SwapOnWhatWasQuoted ==
    \A i \in 1..Len(txs) :
        txs[i].kind = "exactInputSingle" =>
            /\ quotes # <<>> /\ quotes[1].kind = "exactInput"
            /\ \A j \in 2..Len(quotes) : quotes[j].kind = "exactInput" =>
                  \E p \in 1..Len(probes) : probes[p].by = "diagnostics"
            /\ swapParams.tokenIn = quotes[1].tokenIn
            /\ swapParams.tokenOut = quotes[1].tokenOut
            /\ swapParams.fee = quotes[1].fee
            /\ swapParams.amountIn = quotes[1].amount
            /\ txs[i].fee = quotes[1].fee /\ txs[i].amount = quotes[1].amount
            /\ txs[i].bound = ClampZero((quotedAmountOut * FloorOneMinus(slippage)) \div 1000)
            /\ poolReads # <<>> /\ HasCode(poolReads[1])
            /\ quotes[1].fee = PoolFee(poolReads[1])
            /\ poolReads[1] = PoolProbes[Len(PoolProbes)].address

\* C26 witness: the pool was found under the last key, at the 1% tier, and the
\* swap was submitted with the fee and the amount of the quote request.
C26_Witness ==
    /\ Len(PoolProbes) = Len(ProbeOrder)
    /\ Len(TxsOf("exactInputSingle")) = 1
    /\ txs[Len(txs)].kind = "exactInputSingle"
    /\ txs[Len(txs)].fee = 10000 /\ quotes[1].fee = 10000
    /\ txs[Len(txs)].amount = amountIn /\ quotes[1].amount = amountIn

----------------------------------------------------------------------------
(* What a successful approveToken leaves behind (approveToken called           *)
(* repeatedly, the token's approve setting the allowance, no other spender)    *)

\* approveToken has returned successfully and its caller has not yet resumed
ApproveSucceeded == pc = "ap_done" /\ error = ""

\* C27: whenever approveToken returns successfully the router's allowance is at
\* least the amount asked; it submitted at most one transaction, and only when
\* the allowance it read was below the amount; every approval transaction it
\* submitted is for exactly the amount asked, and none is for zero (no reset
\* before the approval).
C27_AllowanceCoversAmount ==
    /\ ApproveSucceeded =>
          /\ allowance >= apAmount
          /\ ApproveSent \in {0, 1}
          /\ ApproveSent = 0 => (apAllowance >= apAmount /\ allowance = apAllowance)
          /\ ApproveSent = 1 =>
                /\ apAllowance < apAmount /\ allowance = apAmount
                /\ txs[Len(txs)].status = "confirmed"
    /\ \A i \in 1..Len(txs) :
          /\ txs[i].kind = "approve" /\ txs[i].amount >= 1
          /\ i > apStart => txs[i].amount = apAmount
    /\ \A i \in 1..Len(calls) :
          calls[i].ok => (calls[i].sent = 1) = (calls[i].allowance < calls[i].amount)

\* C27 witness: the router held a non-zero allowance below the amount, and
\* approveToken returned after its one approval of exactly the amount was
\* confirmed.
C27_Witness ==
    /\ script = "approve" /\ ApproveSucceeded
    /\ apAllowance = 1 /\ apAmount = 2 /\ ApproveSent = 1
    /\ txs[Len(txs)].amount = 2 /\ allowance = 2

====
